---------------------------- MODULE Spec2Model ----------------------------
(***************************************************************************)
(* A model of the storage core of the 4d-paper repository:                 *)
(*   - the fingerprint index      (agents/data_management/                 *)
(*                                 data_deduplication.py)                  *)
(*   - the encrypted object store (agents/data_management/                 *)
(*                                 four_d_data_handler.py,                 *)
(*                                 core/security/encryption.py)            *)
(*   - the ingestion path         (agents/data_management/                 *)
(*                                 data_ingestion.py)                      *)
(*   - the paper version gate     (core/models/paper_model.py,             *)
(*                                 agents/paper_generation/                *)
(*                                 version_manager.py)                     *)
(*   - the temporal index         (storage/timeseries_db.py)               *)
(*                                                                         *)
(* Every component has a specification of its own (Spec, SpecHash,         *)
(* SpecStore, SpecTrace, SpecIngest, SpecPaper, SpecTSDB).  The variables  *)
(* of the components a specification does not use keep their initial       *)
(* value.                                                                  *)
(***************************************************************************)
EXTENDS Integers, Sequences, FiniteSets, TLC

VARIABLES
    data_index,     \* DataDeduplication.data_index: the dict, in insertion order
    index_file,     \* the content of data_index.json
    index_io,       \* whether data_index.json can be read and written
    clock,          \* the reading datetime.utcnow() gives
    registered,     \* history: <<entry_id, hash>> of the registrations that
                    \* returned and whose entry_id was not removed since
    res,            \* the last call and what it returned or raised
    in_a, in_b,     \* two datasets given to calculate_data_hash
    hash_a, hash_b, \* their fingerprints, NotHashed before the call
    numpy_tostring, \* the build: whether ndarray.tostring exists (NumPy < 2.0)
    blobs,          \* the storage directory: data_id -> content of <data_id>.h5.enc
    plain_files,    \* the unencrypted files in the storage directory
    saved,          \* history: data_id -> what the last save_four_d_data that
                    \* wrote its blob was given, and whether the blob is intact
    papers,         \* the DynamicPaper objects in memory: paper_id -> object
    files,          \* storage/papers, storage/timestamps, storage/blockchain:
                    \* path -> content
    tsdb,           \* paper_versions.h5: the groups papers and timestamps
    inserted,       \* history: the insert_paper_version calls that returned
    strftime_pads,  \* the build: whether strftime("%Y") pads a year below
                    \* 1000 with zeros (the C library decides; glibc does not)
    lazy_annotations,
                    \* the build: whether the interpreter evaluates the
                    \* annotations of a def only on demand (Python 3.14 on)
    ingest_log,     \* history: what each ingest_four_d_data returned
    notifications,  \* the alerts UserNotifier has saved
    save_pc,        \* where a writer is in _save_data_index
    previous_file,  \* history: data_index.json before the save in progress
    reader_index,   \* the data_index a second DataDeduplication loaded
    schedule_config,
                    \* DeduplicationScheduler.schedule_config
    is_running,     \* DeduplicationScheduler.is_running
    jobs,           \* the jobs registered with the schedule module
    sched_index,    \* the data_index of the scheduler's own DataDeduplication
    dedup_logs,      \* storage/deduplication/logs: file name -> results
    loop_pc,        \* where run_scheduler is
    pending,        \* the due jobs run_pending has still to run
    scheduler_task, \* OrchestratorAgent.scheduler_task
    monitoring_running, \* OrchestratorAgent.monitoring_running
    task_queue,     \* OrchestratorAgent.task_queue
    mon_pc,         \* where start_monitoring is
    handled         \* history: the tasks passed to handle_task

idxVars == <<data_index, index_file, index_io, clock, registered>>

hashVars == <<in_a, in_b, hash_a, hash_b, numpy_tostring>>
storeVars == <<blobs, plain_files, saved>>
paperVars == <<papers, files>>
tsdbVars == <<tsdb, inserted, strftime_pads, lazy_annotations>>
ingestVars == <<ingest_log, notifications>>
saverVars == <<save_pc, previous_file, reader_index>>
schedVars == <<schedule_config, is_running, jobs, sched_index, dedup_logs>>
loopVars == <<loop_pc, pending, scheduler_task, monitoring_running, task_queue, mon_pc, handled>>

\* what an operation of one component leaves alone
notIdxVars == <<hashVars, storeVars, paperVars, tsdbVars, ingestVars,
    saverVars, schedVars,
                  loopVars>>
notHashVars == <<idxVars, res, storeVars, paperVars, tsdbVars, ingestVars,
    saverVars, schedVars,
                  loopVars>>
notStoreVars == <<data_index, index_file, index_io, registered, hashVars, paperVars,
                  tsdbVars, ingestVars,
    saverVars, schedVars,
                  loopVars>>
notPaperVars == <<idxVars, hashVars, storeVars, tsdbVars, ingestVars,
    saverVars, schedVars,
                  loopVars>>
notTsdbVars == <<idxVars, hashVars, storeVars, paperVars, ingestVars,
    saverVars, schedVars,
                  loopVars>>

vars == <<data_index, index_file, index_io, clock, registered, res,
          in_a, in_b, hash_a, hash_b, numpy_tostring,
          blobs, plain_files, saved, papers, files, tsdb, inserted,
          strftime_pads, lazy_annotations, ingest_log, notifications,
          save_pc, previous_file, reader_index,
          schedule_config, is_running, jobs, sched_index, dedup_logs,
          loop_pc, pending, scheduler_task, monitoring_running, task_queue, mon_pc, handled>>

(***************************************************************************)
(* Bounds of the model.                                                    *)
(***************************************************************************)
MaxClock == 1
MaxEntries == 2
MaxVal == 2         \* the numbers in an array are 1..MaxVal
MaxTime == 1        \* capture timestamps are 0..MaxTime

Papers == {"P1", "P2"}
Users == {"U1"}
Hashes == {"h1", "h2"}
DataTypes == {"tabular", "numpy_array"}
Times == 0..MaxTime
Keys == {"k1", "k2"}

NoCall == [op |-> "none"]
NoData == [kind |-> "none"]
NotHashed == "not hashed"
None == [kind |-> "None"]

\* an optional argument: None, or a value
Nothing == <<>>
Some(x) == <<x>>

\* how a call ends: it returns a value or raises an exception
Return(value) == [ok |-> TRUE, val |-> value, err |-> ""]
Raise(exception) == [ok |-> FALSE, val |-> None, err |-> exception]

(***************************************************************************)
(* Small helpers on sequences.                                             *)
(***************************************************************************)
Range(s) == {s[i] : i \in 1..Len(s)}

(***************************************************************************)
(*             calculate_data_hash: THE CANONICAL FINGERPRINT              *)
(*                                                                         *)
(* Datasets are records.  A scalar is an int or a str; a DataFrame has an  *)
(* index (row labels), columns (column labels) and rows of cells; an       *)
(* ndarray has a dtype, a shape and its elements in C order; a dict has    *)
(* its items in insertion order.  Strings are TLA+ strings, built as the   *)
(* code builds them.                                                       *)
(***************************************************************************)
IntVal(n) == [kind |-> "int", n |-> n, s |-> ""]
StrVal(s) == [kind |-> "str", n |-> 0, s |-> s]
DataFrame(index, columns, rows) ==
    [kind |-> "DataFrame", index |-> index, columns |-> columns, rows |-> rows]
NdArray(dtype, shape, flat) ==
    [kind |-> "ndarray", dtype |-> dtype, shape |-> shape, flat |-> flat]
Dict(items) == [kind |-> "dict", items |-> items]

\* a lone surrogate code point: a str can hold it, UTF-8 cannot encode it
Surrogate == "\\ud800"

\* the strings of the model in Python's (code point) order
StrOrder == <<"1", "a", "age", "b", "name", "x", "y", Surrogate>>
StrRank(s) == CHOOSE i \in 1..Len(StrOrder) : StrOrder[i] = s

\* str(x) of a scalar
PyStr(x) == IF x.kind = "int" THEN ToString(x.n) ELSE x.s

\* repr(x) of a scalar, as str(ndarray) prints the elements of an object array
PyRepr(x) == IF x.kind = "int" THEN ToString(x.n) ELSE "'" \o x.s \o "'"

\* type(x).__name__
PyType(x) == x.kind

RECURSIVE Join(_, _)
Join(strs, sep) ==
    IF strs = <<>> THEN ""
    ELSE IF Len(strs) = 1 THEN strs[1]
         ELSE strs[1] \o sep \o Join(Tail(strs), sep)

\* the positions of keys in ascending order of the keys (a stable sort)
SortPerm(keys) ==
    CHOOSE p \in [1..Len(keys) -> 1..Len(keys)] :
        /\ \A i, j \in 1..Len(keys) : i # j => p[i] # p[j]
        /\ \A i, j \in 1..Len(keys) :
              i < j => \/ keys[p[i]] < keys[p[j]]
                       \/ keys[p[i]] = keys[p[j]] /\ p[i] < p[j]

Permute(s, p) == [i \in 1..Len(s) |-> s[p[i]]]

\* DataFrame.sort_index(axis=0): the rows in ascending order of their labels
SortIndexRows(df) ==
    LET p == SortPerm(df.index)
    IN  DataFrame(Permute(df.index, p), df.columns, Permute(df.rows, p))

\* DataFrame.sort_index(axis=1): the columns in ascending order of their labels
SortIndexColumns(df) ==
    LET p == SortPerm([j \in 1..Len(df.columns) |-> StrRank(df.columns[j])])
    IN  DataFrame(df.index, Permute(df.columns, p),
                  [i \in 1..Len(df.rows) |-> Permute(df.rows[i], p)])

\* DataFrame.to_csv(index=False): the header line, then one line a row; the
\* row labels are not written
ToCsv(df) ==
    Join(df.columns, ",") \o "\n" \o
    Join([i \in 1..Len(df.rows) |->
             Join([j \in 1..Len(df.rows[i]) |-> PyStr(df.rows[i][j])], ",") \o "\n"],
         "")

HexDigits == <<"0", "1", "2", "3", "4", "5", "6", "7",
               "8", "9", "a", "b", "c", "d", "e", "f">>
HexByte(b) == HexDigits[(b \div 16) + 1] \o HexDigits[(b % 16) + 1]

\* the eight bytes of a non-negative int64, little-endian, in hex
RECURSIVE HexLE(_, _)
HexLE(v, nbytes) ==
    IF nbytes = 0 THEN "" ELSE HexByte(v % 256) \o HexLE(v \div 256, nbytes - 1)
Int64Hex(v) == HexLE(v, 8)

\* np.sort(data.flatten()) of a numeric array
SortNumeric(flat) == Permute(flat, SortPerm([i \in 1..Len(flat) |-> flat[i].n]))

\* np.sort(data.flatten()) of an object array of strings
SortStrings(flat) ==
    Permute(flat, SortPerm([i \in 1..Len(flat) |-> StrRank(flat[i].s)]))

Homogeneous(flat) == \A i, j \in 1..Len(flat) : flat[i].kind = flat[j].kind

\* the TypeError np.sort raises on the first comparison of a str and an int:
\* the later element is the left operand
SortTypeError(flat) ==
    LET i == CHOOSE k \in 2..Len(flat) :
                 /\ flat[k].kind # flat[k - 1].kind
                 /\ \A m \in 2..(k - 1) : flat[m].kind = flat[m - 1].kind
    IN  "'<' not supported between instances of '" \o PyType(flat[i])
        \o "' and '" \o PyType(flat[i - 1]) \o "'"

\* the AttributeError of a NumPy without ndarray.tostring
NoTostringError == "'numpy.ndarray' object has no attribute 'tostring'"

\* hashlib.sha256(data_str.encode("utf-8")).hexdigest(), taken as collision-free
Sha256(data_str) == "sha256(" \o data_str \o ")"

\* the string calculate_data_hash builds for an ndarray
ArrayDataStr(data, tostring) ==
    IF Len(data.flat) = 0 THEN "empty_array"
    ELSE IF data.dtype = "object"
         THEN IF ~Homogeneous(data.flat)
              THEN "error_" \o SortTypeError(data.flat)
              ELSE IF data.flat[1].kind = "str"
                   THEN "[" \o Join([i \in 1..Len(data.flat) |->
                                       PyRepr(SortStrings(data.flat)[i])], " ") \o "]"
                   ELSE "[" \o Join([i \in 1..Len(data.flat) |->
                                       PyRepr(SortNumeric(data.flat)[i])], " ") \o "]"
         ELSE IF tostring
              THEN Join([i \in 1..Len(data.flat) |->
                           Int64Hex(SortNumeric(data.flat)[i].n)], "")
              ELSE "error_" \o NoTostringError

\* sorted(data.items()): the items in ascending order of their keys
SortedItems(items) ==
    Permute(items, SortPerm([i \in 1..Len(items) |-> StrRank(items[i][1])]))

\* json.dumps of a dict of strings
JsonDumps(items) ==
    "{" \o Join([i \in 1..Len(items) |->
                   "\"" \o items[i][1] \o "\": \"" \o items[i][2] \o "\""], ", ")
    \o "}"

\* str(e) of the UnicodeEncodeError of "\ud800".encode("utf-8")
SurrogatesNotAllowed ==
    "'utf-8' codec can't encode character '\\ud800' in position 0: "
    \o "surrogates not allowed"

\* the outcome of a call that raises that error instead of returning
UnicodeEncodeError == "UnicodeEncodeError"

\* whether data_str.encode("utf-8") succeeds: the strings are built from the
\* atoms of the dataset, and str() of a scalar str, to_csv and json.dumps
\* with ensure_ascii=False copy them as they are, while str(ndarray) prints
\* their repr, which escapes a surrogate; nested holds the outcomes of the
\* calls on the values of a dict, and a failed one leaves the "error_" string
Encodes(data, nested) ==
    CASE data.kind = "str" -> data.s # Surrogate
      [] data.kind = "DataFrame" ->
           /\ \A j \in 1..Len(data.columns) : data.columns[j] # Surrogate
           /\ \A i \in 1..Len(data.rows) : \A j \in 1..Len(data.rows[i]) :
                 PyStr(data.rows[i][j]) # Surrogate
      [] data.kind = "dict" ->
           \/ \E i \in 1..Len(nested) : nested[i] = UnicodeEncodeError
           \/ \A i \in 1..Len(data.items) : data.items[i][1] # Surrogate
      [] OTHER -> TRUE

\* the fingerprint; the try block builds data_str and its except clause
\* replaces it by "error_" and the message, and the encoding of data_str for
\* the digest comes after the try block
RECURSIVE calculate_data_hash(_, _)
calculate_data_hash(data, tostring) ==
    LET nested ==
            IF data.kind = "dict"
            THEN [i \in 1..Len(data.items) |->
                     calculate_data_hash(SortedItems(data.items)[i][2], tostring)]
            ELSE <<>>
        data_str ==
            CASE data.kind = "DataFrame" ->
                   ToCsv(SortIndexColumns(SortIndexRows(data)))
              [] data.kind = "ndarray" -> ArrayDataStr(data, tostring)
              [] data.kind = "dict" ->
                   IF \E i \in 1..Len(nested) : nested[i] = UnicodeEncodeError
                   THEN "error_" \o SurrogatesNotAllowed
                   ELSE JsonDumps([i \in 1..Len(data.items) |->
                                     <<SortedItems(data.items)[i][1], nested[i]>>])
              [] OTHER -> PyStr(data)
    IN  IF Encodes(data, nested) THEN Sha256(data_str) ELSE UnicodeEncodeError

\* calculate_data_hash is called on the first and on the second dataset
HashA ==
    /\ in_a # NoData
    /\ hash_a = NotHashed
    /\ hash_a' = calculate_data_hash(in_a, numpy_tostring)
    /\ UNCHANGED <<in_a, in_b, hash_b, numpy_tostring, notHashVars>>

HashB ==
    /\ in_b # NoData
    /\ hash_b = NotHashed
    /\ hash_b' = calculate_data_hash(in_b, numpy_tostring)
    /\ UNCHANGED <<in_a, in_b, hash_a, numpy_tostring, notHashVars>>

(***************************************************************************)
(* The datasets the fingerprint is checked on: tables of two rows and two  *)
(* columns (a name column of strings, an age column of ints or numeric     *)
(* strings), with positional row labels in either order; int64 arrays of   *)
(* two elements in two shapes, the empty array, object arrays of two       *)
(* elements; dicts of up to two keys; scalars; among the strings, one that *)
(* is a lone surrogate.                                                    *)
(***************************************************************************)
NameCells == {StrVal("a"), StrVal("b")}
AgeCells == {IntVal(1), StrVal("1")}
Tables ==
    {DataFrame(idx, <<"name", "age">>, <<<<n1, a1>>, <<n2, a2>>>>) :
        idx \in {<<0, 1>>, <<1, 0>>},
        n1 \in NameCells, a1 \in AgeCells, n2 \in NameCells, a2 \in AgeCells}
    \cup
    {DataFrame(idx, <<"age", "name">>, <<<<a1, n1>>, <<a2, n2>>>>) :
        idx \in {<<0, 1>>, <<1, 0>>},
        n1 \in NameCells, a1 \in AgeCells, n2 \in NameCells, a2 \in AgeCells}
Numbers == {IntVal(n) : n \in 1..MaxVal}
NumericArrays ==
    {NdArray("int64", shape, <<x, y>>) :
        shape \in {<<2>>, <<1, 2>>}, x \in Numbers, y \in Numbers}
    \cup {NdArray("int64", <<0>>, <<>>)}
ObjectArrays ==
    {NdArray("object", <<2>>, <<x, y>>) :
        x \in NameCells \cup {IntVal(1)}, y \in NameCells \cup {IntVal(1)}}
DictValues == {IntVal(1), StrVal("1"), StrVal(Surrogate),
               NdArray("int64", <<2>>, <<IntVal(1), IntVal(2)>>)}
Dicts ==
    {Dict(<<<<k, v>>>>) : k \in {"x", "y"}, v \in DictValues}
    \cup {Dict(<<<<"x", v>>, <<"y", w>>>>) : v \in DictValues, w \in DictValues}
    \cup {Dict(<<<<"y", w>>, <<"x", v>>>>) : v \in DictValues, w \in DictValues}
    \cup {Dict(<<<<Surrogate, IntVal(1)>>>>)}
Scalars == {IntVal(1), StrVal("1"), StrVal(Surrogate)}
Datasets == Tables \cup NumericArrays \cup ObjectArrays \cup Dicts \cup Scalars

InitHash ==
    /\ in_a \in Datasets
    /\ in_b \in Datasets
    /\ hash_a = NotHashed
    /\ hash_b = NotHashed
    /\ numpy_tostring \in BOOLEAN

(***************************************************************************)
(*                         THE FINGERPRINT INDEX                           *)
(***************************************************************************)

\* similarity 1.0 and 0.5, in tenths
SIM_EXACT == 10
SIM_TYPE == 5

\* f"entry_{paper_id}_{user_id}_{datetime.utcnow().timestamp()}"
EntryId(paper_id, user_id, now) == <<"entry", paper_id, user_id, now>>

\* self.data_index[entry_id] = {...}: a dict assignment.  A key the dict
\* already holds keeps its place and gets the new value; a new key is appended.
DictAssign(index, entry_id, entry) ==
    IF \E i \in 1..Len(index) : index[i].entry_id = entry_id
    THEN [i \in 1..Len(index) |->
             IF index[i].entry_id = entry_id THEN entry ELSE index[i]]
    ELSE Append(index, entry)

\* a deletion that would drop the entry and every entry registered after it
DictDelete_ToEnd(index, entry_id) ==
    IF \E i \in 1..Len(index) : index[i].entry_id = entry_id
    THEN SubSeq(index, 1,
                (CHOOSE i \in 1..Len(index) : index[i].entry_id = entry_id) - 1)
    ELSE index

\* del self.data_index[entry_id]
DictDelete(index, entry_id) == SelectSeq(index, LAMBDA e : e.entry_id # entry_id)

HasKey(index, entry_id) == \E i \in 1..Len(index) : index[i].entry_id = entry_id

\* one iteration of the loop of find_similar_data: the match an entry gives
MatchOf(entry, data_hash, data_type) ==
    [entry_id |-> entry.entry_id,
     paper_id |-> entry.paper_id,
     user_id |-> entry.user_id,
     data_type |-> entry.data_type,
     timestamp |-> entry.timestamp,
     similarity |-> IF entry.hash = data_hash THEN SIM_EXACT ELSE SIM_TYPE,
     match_type |-> IF entry.hash = data_hash THEN "exact" ELSE "type"]

\* a find_similar_data that matches on the hash only
IsMatch_HashOnly(entry, data_hash, data_type) == entry.hash = data_hash

\* the entries find_similar_data appends a match for
IsMatch(entry, data_hash, data_type) ==
    IF entry.hash = data_hash THEN TRUE
    ELSE entry.data_type = data_type

find_similar_data(index, data_hash, data_type) ==
    LET hits == SelectSeq(index, LAMBDA e : IsMatch(e, data_hash, data_type))
    IN  [i \in 1..Len(hits) |-> MatchOf(hits[i], data_hash, data_type)]

generate_recommendation(has_duplicate, has_similar) ==
    IF has_duplicate
    THEN "Exact duplicate found. Consider using existing data instead of uploading again."
    ELSE IF has_similar
         THEN "Similar data found. Review existing data to avoid redundancy."
         ELSE "No duplicate or similar data found. Safe to upload."

has_exact_match(similar_data) ==
    \E i \in 1..Len(similar_data) : similar_data[i].similarity = SIM_EXACT

has_similar_match(similar_data) == Len(similar_data) > 0

check_duplication_by_hash(index, data_hash, data_type) ==
    LET similar_data == find_similar_data(index, data_hash, data_type)
    IN  [data_hash |-> data_hash,
         data_type |-> data_type,
         has_duplicate |-> has_exact_match(similar_data),
         has_similar |-> has_similar_match(similar_data),
         similar_data |-> similar_data,
         recommendation |->
             generate_recommendation(has_exact_match(similar_data),
                                     has_similar_match(similar_data))]

\* _save_data_index: the file and its state afterwards.  index_io is "ok",
\* "corrupt" (the text in the file is not JSON; a write replaces it) or
\* "denied" (open raises); the exception of a write is caught and logged.
save_data_index(file, index, io) ==
    IF io = "denied" THEN [file |-> file, io |-> io]
    ELSE [file |-> index, io |-> "ok"]

\* add_data_to_index: the entry id and the dict afterwards.  utcnow() is
\* read twice, for the entry id and, a statement later, for the timestamp
\* field; the model gives both the same reading (nothing in the index reads
\* the timestamp field back).
add_data_to_index(index, data_hash, data_type, paper_id, user_id, now) ==
    LET entry_id == EntryId(paper_id, user_id, now)
    IN  [entry_id |-> entry_id,
         index |-> DictAssign(index, entry_id,
                      [entry_id |-> entry_id,
                       hash |-> data_hash,
                       data_type |-> data_type,
                       paper_id |-> paper_id,
                       user_id |-> user_id,
                       timestamp |-> now])]

AddDataToIndex(data_hash, data_type, paper_id, user_id) ==
    LET r == add_data_to_index(data_index, data_hash, data_type, paper_id,
                               user_id, clock)
    IN  /\ \/ HasKey(data_index, r.entry_id)
           \/ Len(data_index) < MaxEntries
        /\ data_index' = r.index
        /\ index_file' = save_data_index(index_file, data_index', index_io).file
        /\ index_io' = save_data_index(index_file, data_index', index_io).io
        /\ registered' = registered \cup {<<r.entry_id, data_hash>>}
        /\ res' = [op |-> "add_data_to_index", out |-> r.entry_id]
        /\ UNCHANGED <<clock, notIdxVars>>

\* remove_data_from_index
RemoveDataFromIndex(entry_id) ==
    /\ IF HasKey(data_index, entry_id)
       THEN /\ data_index' = DictDelete(data_index, entry_id)
            /\ index_file' = save_data_index(index_file, data_index', index_io).file
            /\ index_io' = save_data_index(index_file, data_index', index_io).io
            /\ res' = [op |-> "remove_data_from_index", out |-> TRUE]
       ELSE /\ UNCHANGED <<data_index, index_file, index_io>>
            /\ res' = [op |-> "remove_data_from_index", out |-> FALSE]
    /\ registered' = {r \in registered : r[1] # entry_id}
    /\ UNCHANGED <<clock, notIdxVars>>

\* a check that would also register the fingerprint it is given
CheckDuplicationByHash_Registering(data_hash, data_type) ==
    LET r == add_data_to_index(data_index, data_hash, data_type, "P1", "U1", clock)
    IN  /\ data_index' = r.index
        /\ res' = [op |-> "check_duplication_by_hash",
                   out |-> check_duplication_by_hash(data_index, data_hash, data_type)]
        /\ UNCHANGED <<index_file, index_io, clock, registered, notIdxVars>>

\* check_duplication_by_hash, called from outside
CheckDuplicationByHash(data_hash, data_type) ==
    /\ res' = [op |-> "check_duplication_by_hash",
               out |-> check_duplication_by_hash(data_index, data_hash, data_type)]
    /\ UNCHANGED <<idxVars, notIdxVars>>

\* time passes
Tick ==
    /\ clock < MaxClock
    /\ clock' = clock + 1
    /\ UNCHANGED <<data_index, index_file, index_io, registered, res, notIdxVars>>

(***************************************************************************)
(*                       THE ENCRYPTED OBJECT STORE                        *)
(***************************************************************************)

\* ---- core/security/encryption.py: Fernet (AES-CBC, then HMAC-SHA256) ----
\* The HMAC of a ciphertext under a key, and AES under a key, are symbolic:
\* only the holder of the key computes the HMAC, and decrypting under another
\* key gives garbage.
Hmac(key, ct) == [signer |-> key, over |-> ct]
Garbage == [kind |-> "garbage"]
AesEncrypt(key, content) == [ek |-> key, pt |-> content]
AesDecrypt(key, ct) == IF ct.ek = key THEN ct.pt ELSE Garbage

encrypt_content(content, key) ==
    [ct |-> AesEncrypt(key, content), mac |-> Hmac(key, AesEncrypt(key, content))]

DecryptionFailed == "ValueError: Decryption failed: invalid key or tampered content"

\* a decrypt_content that does not verify the authentication tag
decrypt_content_Unverified(encrypted_content, key) ==
    Return(AesDecrypt(key, encrypted_content.ct))

decrypt_content(encrypted_content, key) ==
    IF encrypted_content.mac = Hmac(key, encrypted_content.ct)
    THEN Return(AesDecrypt(key, encrypted_content.ct))
    ELSE Raise(DecryptionFailed)

\* ---- what h5py and json do to the payload and the metadata ----
\* datetime.isoformat and datetime.fromisoformat
IsoFormat(t) == [iso |-> t]
FromIsoFormat(s) == s.iso

\* json.dumps and json.loads of the metadata dict
MetaJson(metadata) == [json |-> metadata]
MetaLoads(text) == text.json

\* str(data_content).  An array prints its elements between brackets, a dict
\* its items with the repr of the arrays; the text of a DataFrame is given
\* without the padding pandas aligns its columns with.
ArrayStr(a) ==
    IF Len(a.shape) = 1
    THEN "[" \o Join([i \in 1..Len(a.flat) |-> PyRepr(a.flat[i])], " ") \o "]"
    ELSE "[" \o Join([r \in 1..a.shape[1] |->
                  "[" \o Join([c \in 1..a.shape[2] |->
                                 PyRepr(a.flat[(r - 1) * a.shape[2] + c])], " ")
                  \o "]"], "\n ") \o "]"
ArrayRepr(a) ==
    "array([" \o Join([i \in 1..Len(a.flat) |-> PyRepr(a.flat[i])], ", ") \o "])"
StrOfData(x) ==
    CASE x.kind = "ndarray" -> ArrayStr(x)
      [] x.kind = "dict" ->
           "{" \o Join([i \in 1..Len(x.items) |->
                          "'" \o x.items[i][1] \o "': " \o ArrayRepr(x.items[i][2])],
                       ", ") \o "}"
      [] x.kind = "DataFrame" ->
           Join(x.columns, " ") \o "\n" \o
           Join([i \in 1..Len(x.rows) |->
                   ToString(x.index[i]) \o " " \o
                   Join([j \in 1..Len(x.rows[i]) |-> PyStr(x.rows[i][j])], " ")],
                "\n")
      [] OTHER -> PyStr(x)

\* core/security/hash_utils.py calculate_data_hash, of a str
hash_utils_calculate_data_hash(text) == Sha256(text)

\* numpy.asarray(value), as create_dataset(name, data=value) takes it: an
\* array as it is, a DataFrame as the 2-D array of its cells (its labels are
\* dropped); cells that are not all numbers give an object array
AsArray(value) ==
    IF value.kind = "DataFrame"
    THEN NdArray(IF \A i \in 1..Len(value.rows) : \A j \in 1..Len(value.rows[i]) :
                       value.rows[i][j].kind = "int"
                 THEN "int64" ELSE "object",
                 <<Len(value.rows), Len(value.columns)>>,
                 [n \in 1..(Len(value.rows) * Len(value.columns)) |->
                     value.rows[((n - 1) \div Len(value.columns)) + 1]
                               [((n - 1) % Len(value.columns)) + 1]])
    ELSE value

\* h5py has no type for an object array
NoHdf5Type == "TypeError: Object dtype dtype('O') has no native HDF5 equivalent"

\* the datasets save_four_d_data creates: name -> what was given as data
DatasetsOf(data_content) ==
    IF data_content.kind = "dict"
    THEN [k \in {data_content.items[i][1] : i \in 1..Len(data_content.items)} |->
             LET i == CHOOSE i \in 1..Len(data_content.items) :
                          data_content.items[i][1] = k
             IN  AsArray(data_content.items[i][2])]
    ELSE [k \in {"data"} |-> AsArray(data_content)]

\* the metadata block of save_four_d_data
MetadataOf(data_content, data_id, user_id, paper_id, timestamp, coordinate, now) ==
    [data_id |-> data_id,
     user_id |-> user_id,
     paper_id |-> paper_id,
     timestamp |-> IsoFormat(timestamp),
     space_coordinate |-> coordinate,
     data_hash |-> hash_utils_calculate_data_hash(StrOfData(data_content)),
     create_time |-> IsoFormat(now)]

\* the HDF5 container: the metadata attribute and the datasets
Hdf5File(metadata, datasets) ==
    [kind |-> "hdf5", metadata |-> MetaJson(metadata), datasets |-> datasets]

PlainFile(data_id) == <<data_id, ".h5">>
TempFile(data_id) == <<data_id, "_temp.h5">>

\* save_four_d_data: returns the path of the blob, or raises out of
\* create_dataset and leaves the unencrypted container it had begun behind
save_four_d_data(data_content, data_id, user_id, paper_id, timestamp, coordinate, key, now) ==
    LET datasets == DatasetsOf(data_content)
        metadata == MetadataOf(data_content, data_id, user_id, paper_id,
                               timestamp, coordinate, now)
    IN  IF \E k \in DOMAIN datasets : datasets[k].dtype = "object"
        THEN [out |-> Raise(NoHdf5Type), written |-> FALSE, blob |-> None,
              leaves |-> {PlainFile(data_id)}, metadata |-> metadata]
        ELSE [out |-> Return(<<data_id, ".h5.enc">>), written |-> TRUE,
              blob |-> encrypt_content(Hdf5File(metadata, datasets), key),
              leaves |-> {}, metadata |-> metadata]

NotFound(data_id) == "FileNotFoundError: 4D data not found"
TimestampMismatch == "ValueError: Timestamp mismatch"
CoordinateMismatch == "ValueError: Spatial coordinate mismatch"
NotHdf5 == "OSError: Unable to open file (file signature not found)"
KeyErrorData == "KeyError: 'data'"

\* the payload load_four_d_data returns from the datasets it has read:
\* data if len(data) > 1 else data["data"]
LoadedData(datasets) ==
    IF Cardinality(DOMAIN datasets) > 1
    THEN Return([kind |-> "dict", map |-> datasets])
    ELSE IF "data" \in DOMAIN datasets
         THEN Return(datasets["data"])
         ELSE Raise(KeyErrorData)

\* load_four_d_data: what it returns or raises, and whether it leaves its
\* temporary unencrypted copy behind
load_four_d_data(dir, data_id, key, timestamp, coordinate) ==
    IF data_id \notin DOMAIN dir
    THEN [out |-> Raise(NotFound(data_id)), leaves |-> {}]
    ELSE LET decrypted == decrypt_content(dir[data_id], key) IN
         IF ~decrypted.ok
         THEN [out |-> decrypted, leaves |-> {}]
         ELSE IF decrypted.val.kind # "hdf5"
         THEN [out |-> Raise(NotHdf5), leaves |-> {TempFile(data_id)}]
         ELSE LET metadata == MetaLoads(decrypted.val.metadata)
                  data == LoadedData(decrypted.val.datasets)
              IN  IF timestamp # Nothing
                     /\ FromIsoFormat(metadata.timestamp) # timestamp[1]
                  THEN [out |-> Raise(TimestampMismatch),
                        leaves |-> {TempFile(data_id)}]
                  ELSE IF coordinate # None
                          /\ metadata.space_coordinate # coordinate
                  THEN [out |-> Raise(CoordinateMismatch),
                        leaves |-> {TempFile(data_id)}]
                  ELSE IF ~data.ok
                  THEN [out |-> data, leaves |-> {TempFile(data_id)}]
                  ELSE [out |-> Return([metadata |-> metadata, data |-> data.val]),
                        leaves |-> {}]

\* _extract_metadata_without_decrypt
extract_metadata(encrypted_data, key) ==
    LET decrypted == decrypt_content(encrypted_data, key) IN
    IF ~decrypted.ok THEN decrypted
    ELSE IF decrypted.val.kind # "hdf5" THEN Raise(NotHdf5)
    ELSE Return(MetaLoads(decrypted.val.metadata))

\* the blobs trace_four_d_data_by_time goes on to load: the metadata can be
\* read with the key and pass the filters
TraceSelects(dir, data_id, paper_id, start_time, end_time, user_id, key) ==
    LET m == extract_metadata(dir[data_id], key) IN
    /\ m.ok
    /\ m.val.paper_id = paper_id
    /\ m.val.user_id = user_id
    /\ start_time <= FromIsoFormat(m.val.timestamp)
    /\ FromIsoFormat(m.val.timestamp) <= end_time

\* trace_four_d_data_by_time: every exception of one blob is caught and the
\* blob skipped
trace_four_d_data_by_time(dir, paper_id, start_time, end_time, user_id, key) ==
    LET selected == {d \in DOMAIN dir :
                        TraceSelects(dir, d, paper_id, start_time, end_time,
                                     user_id, key)}
        loads == [d \in selected |-> load_four_d_data(dir, d, key, Nothing, None)]
    IN  [out |-> Return([d \in {x \in selected : loads[x].out.ok} |->
                           loads[d].out.val]),
         leaves |-> UNION {loads[d].leaves : d \in selected}]

\* ---- the calls ----
SaveFourDData(data_content, data_id, user_id, paper_id, timestamp, coordinate, key) ==
    LET r == save_four_d_data(data_content, data_id, user_id, paper_id,
                              timestamp, coordinate, key, clock)
    IN  /\ blobs' = IF r.written
                    THEN [d \in DOMAIN blobs \cup {data_id} |->
                             IF d = data_id THEN r.blob ELSE blobs[d]]
                    ELSE blobs
        /\ plain_files' = IF r.written
                          THEN plain_files \ {PlainFile(data_id)}
                          ELSE plain_files \cup r.leaves
        /\ saved' = IF r.written
                    THEN [d \in DOMAIN saved \cup {data_id} |->
                             IF d = data_id
                             THEN [payload |-> data_content, key |-> key,
                                   metadata |-> r.metadata, intact |-> TRUE]
                             ELSE saved[d]]
                    ELSE saved
        /\ res' = [op |-> "save_four_d_data", data_id |-> data_id, key |-> key,
                   out |-> r.out]
        /\ UNCHANGED <<clock, notStoreVars>>

LoadFourDData(data_id, key, timestamp, coordinate) ==
    LET r == load_four_d_data(blobs, data_id, key, timestamp, coordinate)
    IN  /\ plain_files' = IF r.out.ok
                          THEN plain_files \ {TempFile(data_id)}
                          ELSE plain_files \cup r.leaves
        /\ res' = [op |-> "load_four_d_data", data_id |-> data_id, key |-> key,
                   timestamp |-> timestamp, coordinate |-> coordinate,
                   out |-> r.out]
        /\ UNCHANGED <<blobs, saved, clock, notStoreVars>>

TraceFourDDataByTime(paper_id, start_time, end_time, user_id, key) ==
    LET r == trace_four_d_data_by_time(blobs, paper_id, start_time, end_time,
                                       user_id, key)
    IN  /\ plain_files' = (plain_files \ {TempFile(d) : d \in DOMAIN r.out.val})
                              \cup r.leaves
        /\ res' = [op |-> "trace_four_d_data_by_time", paper_id |-> paper_id,
                   start_time |-> start_time, end_time |-> end_time,
                   user_id |-> user_id, key |-> key, out |-> r.out]
        /\ UNCHANGED <<blobs, saved, clock, notStoreVars>>

\* someone without the key alters the blob of data_id on disk: bits of the
\* ciphertext, or of the authentication tag
TamperBlob(data_id, part) ==
    /\ data_id \in DOMAIN blobs
    /\ saved[data_id].intact
    /\ blobs' = [blobs EXCEPT ![data_id] =
                    IF part = "ciphertext"
                    THEN [ct |-> [ek |-> @.ct.ek, pt |-> Garbage], mac |-> @.mac]
                    ELSE [ct |-> @.ct, mac |-> [signer |-> "nobody", over |-> @.ct]]]
    /\ saved' = [saved EXCEPT ![data_id].intact = FALSE]
    /\ UNCHANGED <<plain_files, res, clock, notStoreVars>>

InitStore ==
    /\ blobs = <<>>
    /\ plain_files = {}
    /\ saved = <<>>

(***************************************************************************)
(*                         THE PAPER VERSION GATE                          *)
(***************************************************************************)
MaxVersion == 3     \* the version numbers given to a paper are 0..MaxVersion

PaperIds == {"P1"}
Reasons == {"r1", "r2"}

\* PaperVersion(version_number=..., update_reason=..., paper_content_hash=...)
PaperVersion(version_number, update_reason, content) ==
    [version_number |-> version_number,
     update_reason |-> update_reason,
     paper_content_hash |-> Sha256(content)]

\* DynamicPaper(paper_id=...): latest_version defaults to 1, versions to []
DynamicPaper(paper_id) ==
    [paper_id |-> paper_id, latest_version |-> 1, versions |-> <<>>]

InvalidVersionNumber(expected, got) ==
    "ValueError: Invalid version number: expected " \o ToString(expected)
        \o ", got " \o ToString(got)

\* an add_new_version that would append whatever number it is given
add_new_version_Unchecked(paper, version) ==
    [out |-> Return(None),
     paper |-> [paper EXCEPT !.versions = Append(@, version),
                             !.latest_version = version.version_number]]

\* an add_new_version that only refuses numbers that are too small
add_new_version_AtLeast(paper, version) ==
    IF version.version_number < paper.latest_version + 1
    THEN [out |-> Raise(InvalidVersionNumber(paper.latest_version + 1,
                                             version.version_number)),
          paper |-> paper]
    ELSE [out |-> Return(None),
          paper |-> [paper EXCEPT !.versions = Append(@, version),
                                  !.latest_version = version.version_number]]

\* DynamicPaper.add_new_version: what it returns or raises, and the object
add_new_version(paper, version) ==
    IF version.version_number # paper.latest_version + 1
    THEN [out |-> Raise(InvalidVersionNumber(paper.latest_version + 1,
                                             version.version_number)),
          paper |-> paper]
    ELSE [out |-> Return(None),
          paper |-> [paper EXCEPT !.versions = Append(@, version),
                                  !.latest_version = version.version_number]]

\* open(path, "w") and a write
WriteFile(dir, path, content) ==
    [f \in DOMAIN dir \cup {path} |-> IF f = path THEN content ELSE dir[f]]

PaperPath(paper_id) == "papers/" \o paper_id \o ".json"
VersionPath(paper_id, version_number) ==
    "papers/" \o paper_id \o "_v" \o ToString(version_number)
ChainPath == "blockchain/blockchain.json"

\* save_paper: json.dump(paper.dict())
save_paper(dir, paper) == WriteFile(dir, PaperPath(paper.paper_id), [json |-> paper])

\* TemplateEngine.generate_pdf(content, pdf_path): writes the rendition
generate_pdf(dir, content, pdf_path) == WriteFile(dir, pdf_path, [pdf |-> content])

\* TimestampService.create_timestamp: the record it saves and returns
create_timestamp(content, paper_id, version_number, now) ==
    [timestamp_id |-> "ts_" \o paper_id \o "_" \o ToString(version_number)
                         \o "_" \o ToString(now),
     paper_id |-> paper_id,
     version_number |-> version_number,
     content_hash |-> Sha256(content),
     timestamp_unix |-> now]

\* BlockchainCert.certify_paper: the certificate, and the block that a
\* BlockchainCert constructed for this call appends to the chain it loaded
CertData(paper_id, version_number, content_hash, now) ==
    [cert_id |-> "cert_" \o paper_id \o "_" \o ToString(version_number)
                    \o "_" \o ToString(now),
     paper_id |-> paper_id,
     version_number |-> version_number,
     content_hash |-> content_hash]
CreateBlock(chain, cert_data) ==
    LET previous_hash == IF chain = <<>> THEN "0" ELSE chain[Len(chain)].hash
    IN  [index |-> Len(chain) + 1,
         cert_data |-> cert_data,
         previous_hash |-> previous_hash,
         hash |-> Sha256(ToString(Len(chain) + 1) \o "|" \o cert_data.cert_id
                            \o "|" \o previous_hash)]
LoadChain(dir) == IF ChainPath \in DOMAIN dir THEN dir[ChainPath].json ELSE <<>>

\* PaperVersionManager.save_new_version: the gate first; a version it lets
\* through is persisted with its content, rendition and certificates
save_new_version(dir, paper, version, content, now) ==
    LET added == add_new_version(paper, version) IN
    IF ~added.out.ok
    THEN [out |-> added.out, paper |-> paper, dir |-> dir]
    ELSE LET version_path == VersionPath(paper.paper_id, version.version_number)
             d1 == save_paper(dir, added.paper)
             d2 == WriteFile(d1, version_path \o ".md", content)
             d3 == generate_pdf(d2, content, version_path \o ".pdf")
             timestamp == create_timestamp(content, paper.paper_id,
                                           version.version_number, now)
             d4 == WriteFile(d3, "timestamps/" \o timestamp.timestamp_id \o ".json",
                             [json |-> timestamp])
             certification == CertData(paper.paper_id, version.version_number,
                                       version.paper_content_hash, now)
             d5 == WriteFile(d4, ChainPath,
                             [json |-> Append(LoadChain(d4),
                                              CreateBlock(LoadChain(d4), certification))])
             d6 == WriteFile(d5, version_path \o "_cert.json",
                             [json |-> [timestamp |-> timestamp,
                                        blockchain_certification |-> certification]])
         IN  [out |-> Return(None), paper |-> added.paper, dir |-> d6]

PaperNotFound == "FileNotFoundError: Paper not found"

\* ---- the calls ----
AddNewVersion(paper_id, version) ==
    LET r == add_new_version(papers[paper_id], version)
    IN  /\ papers' = [papers EXCEPT ![paper_id] = r.paper]
        /\ res' = [op |-> "add_new_version", paper_id |-> paper_id,
                   version |-> version, out |-> r.out]
        /\ UNCHANGED <<files, notPaperVars>>

SaveNewVersion(paper_id, version, content) ==
    LET r == save_new_version(files, papers[paper_id], version, content, clock)
    IN  /\ papers' = [papers EXCEPT ![paper_id] = r.paper]
        /\ files' = r.dir
        /\ res' = [op |-> "save_new_version", paper_id |-> paper_id,
                   version |-> version, out |-> r.out]
        /\ UNCHANGED notPaperVars

SavePaper(paper_id) ==
    /\ files' = save_paper(files, papers[paper_id])
    /\ res' = [op |-> "save_paper", paper_id |-> paper_id, out |-> Return(None)]
    /\ UNCHANGED <<papers, notPaperVars>>

\* get_paper: the caller goes on with the object read from the file
GetPaper(paper_id) ==
    /\ IF PaperPath(paper_id) \in DOMAIN files
       THEN /\ papers' = [papers EXCEPT ![paper_id] = files[PaperPath(paper_id)].json]
            /\ res' = [op |-> "get_paper", paper_id |-> paper_id,
                       out |-> Return(files[PaperPath(paper_id)].json)]
       ELSE /\ UNCHANGED papers
            /\ res' = [op |-> "get_paper", paper_id |-> paper_id,
                       out |-> Raise(PaperNotFound)]
    /\ UNCHANGED <<files, notPaperVars>>

InitPaper ==
    /\ papers = [p \in PaperIds |-> DynamicPaper(p)]
    /\ files = <<>>

(***************************************************************************)
(*                           THE TEMPORAL INDEX                            *)
(*                                                                         *)
(* A datetime is a record of year, month, day and microsecond; the time    *)
(* of day is 00:00:00 throughout.  A text is the sequence of its           *)
(* characters: the digits 0..9 and the underscore, which sorts after them. *)
(***************************************************************************)
MaxEvents == 3      \* the datasets paper_versions.h5 holds

Underscore == 10

Datetime(year, month, day, microsecond) ==
    [year |-> year, month |-> month, day |-> day, microsecond |-> microsecond]

RECURSIVE Pow10(_)
Pow10(n) == IF n = 0 THEN 1 ELSE 10 * Pow10(n - 1)

\* n in decimal, zero-padded to width digits
Pad(n, width) == [i \in 1..width |-> (n \div Pow10(width - i)) % 10]

NumDigits(n) == IF n < 10 THEN 1 ELSE IF n < 100 THEN 2 ELSE IF n < 1000 THEN 3 ELSE 4

\* str(n)
Decimal(n) == Pad(n, NumDigits(n))

RECURSIVE ToNum(_)
ToNum(digits) ==
    IF digits = <<>> THEN 0
    ELSE 10 * ToNum(SubSeq(digits, 1, Len(digits) - 1)) + digits[Len(digits)]

\* strftime("%Y")
StrftimeYear(t, pads) == IF pads THEN Pad(t.year, 4) ELSE Decimal(t.year)

\* the key of an event, as split("_") takes it apart:
\* strftime('%Y%m%d_%H%M%S_%f') and the version number
TsKey(timestamp, version_number, pads) ==
    [date |-> StrftimeYear(timestamp, pads) \o Pad(timestamp.month, 2)
                 \o Pad(timestamp.day, 2),
     time |-> Pad(0, 6),
     f |-> Pad(timestamp.microsecond, 6),
     n |-> Decimal(version_number)]

\* the key as one text
KeyText(key) ==
    key.date \o <<Underscore>> \o key.time \o <<Underscore>> \o key.f
        \o <<Underscore>> \o key.n

\* a < b for two texts, as Python orders strings
TextLess(a, b) ==
    \E i \in 1..(Len(a) + 1) :
        /\ \A j \in 1..(i - 1) : j <= Len(b) /\ a[j] = b[j]
        /\ i <= Len(b)
        /\ (i <= Len(a) => a[i] < b[i])

\* the names of a group in the order h5py iterates them: ascending
RECURSIVE SortedKeys(_)
SortedKeys(S) ==
    IF S = {} THEN <<>>
    ELSE LET m == CHOOSE x \in S : \A y \in S : ~TextLess(KeyText(y), KeyText(x))
         IN  <<m>> \o SortedKeys(S \ {m})

\* the regular expressions strptime has for %m and %d, two characters wide
\* and one character wide
Month2(a, b) == (a = 1 /\ b \in 0..2) \/ (a = 0 /\ b \in 1..9)
Day2(a, b) == (a = 3 /\ b \in 0..1) \/ (a \in 1..2) \/ (a = 0 /\ b \in 1..9)
One(a) == a \in 1..9

NoMatch == [ok |-> FALSE, month |-> 0, day |-> 0]
MonthDay(m, d) == [ok |-> TRUE, month |-> m, day |-> d]

\* %m%d matched against the characters between the year and the underscore:
\* the first of the alternatives of %m with which %d matches the rest
ParseMonthDay(rest) ==
    CASE Len(rest) = 4 ->
           IF Month2(rest[1], rest[2]) /\ Day2(rest[3], rest[4])
           THEN MonthDay(ToNum(SubSeq(rest, 1, 2)), ToNum(SubSeq(rest, 3, 4)))
           ELSE NoMatch
      [] Len(rest) = 3 ->
           IF Month2(rest[1], rest[2]) /\ One(rest[3])
           THEN MonthDay(ToNum(SubSeq(rest, 1, 2)), rest[3])
           ELSE IF One(rest[1]) /\ Day2(rest[2], rest[3])
                THEN MonthDay(rest[1], ToNum(SubSeq(rest, 2, 3)))
                ELSE NoMatch
      [] Len(rest) = 2 ->
           IF One(rest[1]) /\ One(rest[2]) THEN MonthDay(rest[1], rest[2])
           ELSE NoMatch
      [] OTHER -> NoMatch

IsLeap(year) == year % 4 = 0 /\ (year % 100 # 0 \/ year % 400 = 0)
DaysIn(year, month) ==
    IF month = 2 THEN (IF IsLeap(year) THEN 29 ELSE 28)
    ELSE IF month \in {4, 6, 9, 11} THEN 30 ELSE 31

StrptimeError == "ValueError: time data does not match format"

\* datetime.strptime(ts_str, "%Y%m%d_%H%M%S_%f") of the first three parts
\* of a key: %Y takes four digits
Strptime(key) ==
    IF Len(key.date) < 4 THEN Raise(StrptimeError)
    ELSE LET year == ToNum(SubSeq(key.date, 1, 4))
             md == ParseMonthDay(SubSeq(key.date, 5, Len(key.date)))
         IN  IF ~md.ok \/ year < 1 \/ md.day > DaysIn(year, md.month)
             THEN Raise(StrptimeError)
             ELSE Return(Datetime(year, md.month, md.day, ToNum(key.f)))

\* a <= b for two datetimes
DatetimeLE(a, b) ==
    \/ a.year < b.year
    \/ a.year = b.year /\ a.month < b.month
    \/ a.year = b.year /\ a.month = b.month /\ a.day < b.day
    \/ a.year = b.year /\ a.month = b.month /\ a.day = b.day
          /\ a.microsecond <= b.microsecond

\* datetime.isoformat(), without its separators: the year always has four
\* digits, the microseconds are left out when they are 0
isoformat(t) ==
    Pad(t.year, 4) \o Pad(t.month, 2) \o Pad(t.day, 2) \o Pad(0, 6)
        \o (IF t.microsecond = 0 THEN <<>> ELSE Pad(t.microsecond, 6))

\* list.sort(key=lambda x: x["timestamp"]): stable
RECURSIVE SortByTimestamp(_)
SortByTimestamp(versions) ==
    IF versions = <<>> THEN <<>>
    ELSE LET i == CHOOSE i \in 1..Len(versions) :
                     /\ \A j \in 1..Len(versions) :
                           ~TextLess(versions[j].timestamp, versions[i].timestamp)
                     /\ \A j \in 1..(i - 1) :
                           TextLess(versions[i].timestamp, versions[j].timestamp)
         IN  <<versions[i]>>
             \o SortByTimestamp([k \in 1..(Len(versions) - 1) |->
                                    IF k < i THEN versions[k] ELSE versions[k + 1]])

\* version.dict() with the datetimes at its top level made ISO strings; the
\* datetime inside a data reference stays a datetime
VersionDict(version_number, update_reason, references) ==
    [version_number |-> version_number,
     update_reason |-> update_reason,
     four_d_data_references |-> references]

NotSerializable == "TypeError: Object of type datetime is not JSON serializable"
NameExists == "ValueError: Unable to create dataset (name already exists)"

EmptyDb == [papers |-> <<>>, timestamps |-> <<>>]

\* group.create_group(name) if name is not in the group
WithGroup(group, name) ==
    IF name \in DOMAIN group THEN group
    ELSE [g \in DOMAIN group \cup {name} |-> IF g = name THEN <<>> ELSE group[g]]

\* group[name][key] = value
Put(group, name, key, value) ==
    LET old == group[name]
    IN  [group EXCEPT ![name] =
            [k \in DOMAIN old \cup {key} |-> IF k = key THEN value ELSE old[k]]]

\* insert_paper_version: what it returns or raises, and the file afterwards
insert_paper_version(db, paper_id, version_dict, timestamp, pads) ==
    LET ts_key == TsKey(timestamp, version_dict.version_number, pads)
        with_paper == [db EXCEPT !.papers = WithGroup(@, paper_id)]
        year == StrftimeYear(timestamp, pads)
    IN  IF version_dict.four_d_data_references # <<>>
        THEN [out |-> Raise(NotSerializable), db |-> with_paper]
        ELSE IF ts_key \in DOMAIN with_paper.papers[paper_id]
        THEN [out |-> Raise(NameExists), db |-> with_paper]
        ELSE [out |-> Return(None),
              db |-> [papers |-> Put(with_paper.papers, paper_id, ts_key,
                                     [json |-> version_dict]),
                      timestamps |-> Put(WithGroup(db.timestamps, year), year,
                                         ts_key, <<"papers", paper_id, ts_key>>)]]

\* what get_versions_by_time_range returns for one dataset
VersionData(version_dict, version_ts) ==
    [version_number |-> version_dict.version_number,
     update_reason |-> version_dict.update_reason,
     four_d_data_references |-> version_dict.four_d_data_references,
     timestamp |-> isoformat(version_ts)]

\* get_versions_by_time_range: the datasets of the paper in the order of
\* their names, those kept whose key parses to a time in the range, sorted
get_versions_by_time_range(db, paper_id, start_time, end_time) ==
    IF paper_id \notin DOMAIN db.papers THEN <<>>
    ELSE LET paper_group == db.papers[paper_id]
             keys == SortedKeys(DOMAIN paper_group)
             kept == SelectSeq(keys,
                        LAMBDA k : /\ Strptime(k).ok
                                   /\ DatetimeLE(start_time, Strptime(k).val)
                                   /\ DatetimeLE(Strptime(k).val, end_time))
         IN  SortByTimestamp([i \in 1..Len(kept) |->
                                 VersionData(paper_group[kept[i]].json,
                                             Strptime(kept[i]).val)])

\* list.sort(key=lambda x: x["version_number"]): stable
RECURSIVE SortByVersionNumber(_)
SortByVersionNumber(versions) ==
    IF versions = <<>> THEN <<>>
    ELSE LET i == CHOOSE i \in 1..Len(versions) :
                     /\ \A j \in 1..Len(versions) :
                           versions[i].version_number <= versions[j].version_number
                     /\ \A j \in 1..(i - 1) :
                           versions[i].version_number < versions[j].version_number
         IN  <<versions[i]>>
             \o SortByVersionNumber([k \in 1..(Len(versions) - 1) |->
                                       IF k < i THEN versions[k] ELSE versions[k + 1]])

\* get_all_versions: the datasets of the paper in the order of their names,
\* as they were written, sorted by version number
get_all_versions(db, paper_id) ==
    IF paper_id \notin DOMAIN db.papers THEN <<>>
    ELSE LET paper_group == db.papers[paper_id]
             keys == SortedKeys(DOMAIN paper_group)
         IN  SortByVersionNumber([i \in 1..Len(keys) |-> paper_group[keys[i]].json])

\* str.startswith
StartsWith(text, prefix) ==
    /\ Len(prefix) <= Len(text)
    /\ SubSeq(text, 1, Len(prefix)) = prefix

\* timestamp.strftime("%Y%m%d_%H%M%S_%f")
TsPattern(timestamp, pads) ==
    LET key == TsKey(timestamp, 0, pads)
    IN  key.date \o <<Underscore>> \o key.time \o <<Underscore>> \o key.f

\* get_version_by_timestamp: the first dataset of the paper, in the order
\* of the names, whose name starts with the pattern, or None
get_version_by_timestamp(db, paper_id, timestamp, pads) ==
    IF paper_id \notin DOMAIN db.papers THEN Nothing
    ELSE LET paper_group == db.papers[paper_id]
             hits == SelectSeq(SortedKeys(DOMAIN paper_group),
                        LAMBDA k : StartsWith(KeyText(k), TsPattern(timestamp, pads)))
         IN  IF hits = <<>> THEN Nothing ELSE Some(paper_group[hits[1]].json)

\* the annotation "-> Optional[Dict[str, Any]]" of get_version_by_timestamp
\* names Optional, which the module does not import from typing: where
\* annotations are evaluated when the def is executed, the class body and
\* with it the import of the module raises, and no call can be made
NoOptional == "NameError: name 'Optional' is not defined"

\* the number of datasets in the file
DbSize(db) ==
    Cardinality(UNION {{<<p, k>> : k \in DOMAIN db.papers[p]} : p \in DOMAIN db.papers})

\* ---- the calls ----
InsertPaperVersion(paper_id, version_dict, timestamp) ==
    LET r == insert_paper_version(tsdb, paper_id, version_dict, timestamp,
                                  strftime_pads)
    IN  /\ DbSize(tsdb) < MaxEvents
        /\ tsdb' = IF lazy_annotations THEN r.db ELSE tsdb
        /\ inserted' = IF lazy_annotations /\ r.out.ok
                       THEN inserted \cup {[paper_id |-> paper_id,
                                            version |-> version_dict,
                                            timestamp |-> timestamp]}
                       ELSE inserted
        /\ res' = [op |-> "insert_paper_version", paper_id |-> paper_id,
                   timestamp |-> timestamp,
                   out |-> IF lazy_annotations THEN r.out ELSE Raise(NoOptional)]
        /\ UNCHANGED <<strftime_pads, lazy_annotations, notTsdbVars>>

GetVersionsByTimeRange(paper_id, start_time, end_time) ==
    /\ res' = [op |-> "get_versions_by_time_range", paper_id |-> paper_id,
               start_time |-> start_time, end_time |-> end_time,
               out |-> IF lazy_annotations
                       THEN Return(get_versions_by_time_range(tsdb, paper_id,
                                                              start_time, end_time))
                       ELSE Raise(NoOptional)]
    /\ UNCHANGED <<tsdbVars, notTsdbVars>>

GetAllVersions(paper_id) ==
    /\ res' = [op |-> "get_all_versions", paper_id |-> paper_id,
               out |-> IF lazy_annotations
                       THEN Return(get_all_versions(tsdb, paper_id))
                       ELSE Raise(NoOptional)]
    /\ UNCHANGED <<tsdbVars, notTsdbVars>>

GetVersionByTimestamp(paper_id, timestamp) ==
    /\ res' = [op |-> "get_version_by_timestamp", paper_id |-> paper_id,
               timestamp |-> timestamp,
               out |-> IF lazy_annotations
                       THEN Return(get_version_by_timestamp(tsdb, paper_id, timestamp,
                                                            strftime_pads))
                       ELSE Raise(NoOptional)]
    /\ UNCHANGED <<tsdbVars, notTsdbVars>>

\* TimeSeriesDB.__init__ on a directory without paper_versions.h5
InitTSDB ==
    /\ tsdb = EmptyDb
    /\ inserted = {}

(***************************************************************************)
(*                          THE INGESTION PATH                             *)
(***************************************************************************)
MaxIngest == 3      \* the ingestions of one run

\* check_duplication: the fingerprint of the data, then the check
check_duplication(index, data, data_type, tostring) ==
    check_duplication_by_hash(index, calculate_data_hash(data, tostring), data_type)

\* a data file: its extension and what is in it
DataFile(ext, content) == [ext |-> ext, content |-> content]

\* _get_data_type
get_data_type(file) ==
    CASE file.ext = ".csv" -> "tabular"
      [] file.ext = ".npy" -> "numpy_array"
      [] file.ext = ".txt" -> "text"
      [] OTHER -> "unknown"

UnsupportedFormat == "ValueError: Unsupported file format"

\* _load_data: pd.read_csv or np.load of the file
load_data(file) ==
    IF file.ext \in {".csv", ".npy"} THEN Return(file.content)
    ELSE Raise(UnsupportedFormat)

\* f"data_{paper_id}_{uuid.uuid4().hex[:8]}": the uuid of the n-th ingestion;
\* two uuids are taken to differ
DataId(paper_id, n) == "data_" \o paper_id \o "_" \o ToString(n)

DuplicateMessage == "Exact duplicate found for your data upload"
SimilarMessage == "Similar data found for your data upload"

\* ingest_four_d_data: the check, the alert, the store call whose failure
\* is logged and replaced by a dummy path, the registration
\* _save_notification for each alert in turn: notifications.insert(0, ...)
\* puts the newest first (the model stays below the 100 the file keeps)
RECURSIVE SaveNotifications(_, _)
SaveNotifications(saved_alerts, alerts) ==
    IF alerts = <<>> THEN saved_alerts
    ELSE SaveNotifications(<<Head(alerts)>> \o saved_alerts, Tail(alerts))

NotifierError == "JSONDecodeError: the notifications file of the user"

\* the calls ingest_four_d_data makes that change something, in the order it
\* makes them
CallsMade(alert, delivered) ==
    IF alert = <<>>
    THEN <<"check_duplication", "save_four_d_data", "add_data_to_index">>
    ELSE IF ~delivered
    THEN <<"check_duplication", "send_deduplication_alert">>
    ELSE <<"check_duplication", "send_deduplication_alert", "save_four_d_data",
           "add_data_to_index">>

\* ingest_four_d_data.  deliverable: whether _save_notification can read and
\* rewrite the notifications file of the user; an exception of it is not
\* caught and ends the ingestion.
Ingest(file, user_id, paper_id, timestamp, key, deliverable) ==
    LET data_id == DataId(paper_id, Len(ingest_log) + 1)
        data_type == get_data_type(file)
        loaded == load_data(file)
    IN  /\ Len(ingest_log) < MaxIngest
        /\ IF ~loaded.ok
           THEN /\ res' = [op |-> "ingest_four_d_data", out |-> loaded,
                           calls |-> <<>>, finding |-> FALSE]
                /\ UNCHANGED <<data_index, index_file, index_io, registered,
                               storeVars,
                               ingestVars>>
           ELSE LET data_content == loaded.val
                    duplication_check ==
                        check_duplication(data_index, data_content, data_type,
                                          numpy_tostring)
                    alert == IF duplication_check.has_duplicate
                             THEN <<[user_id |-> user_id, message |-> DuplicateMessage]>>
                             ELSE IF duplication_check.has_similar
                             THEN <<[user_id |-> user_id, message |-> SimilarMessage]>>
                             ELSE <<>>
                    s == save_four_d_data(data_content, data_id, user_id, paper_id,
                                          timestamp, None, key, clock)
                    storage_path == IF s.out.ok THEN s.out.val
                                    ELSE <<"dummy_path_", data_id>>
                    a == add_data_to_index(data_index, duplication_check.data_hash,
                                           data_type, paper_id, user_id, clock)
                    response == [data_id |-> data_id,
                                 data_content |-> data_content,
                                 data_type |-> data_type,
                                 storage_path |-> storage_path,
                                 user_id |-> user_id,
                                 paper_id |-> paper_id,
                                 duplication_check |-> duplication_check]
                IN  IF alert # <<>> /\ ~deliverable
                    THEN /\ res' = [op |-> "ingest_four_d_data",
                                    out |-> Raise(NotifierError),
                                    calls |-> CallsMade(alert, FALSE),
                                    finding |-> TRUE]
                         /\ UNCHANGED <<data_index, index_file, index_io, registered,
                                        storeVars, ingestVars>>
                    ELSE /\ notifications' = SaveNotifications(notifications, alert)
                         /\ blobs' = IF s.written
                                     THEN [d \in DOMAIN blobs \cup {data_id} |->
                                              IF d = data_id THEN s.blob ELSE blobs[d]]
                                     ELSE blobs
                         /\ plain_files' = plain_files \cup s.leaves
                         /\ saved' = IF s.written
                                     THEN [d \in DOMAIN saved \cup {data_id} |->
                                              IF d = data_id
                                              THEN [payload |-> data_content,
                                                    key |-> key,
                                                    metadata |-> s.metadata,
                                                    intact |-> TRUE]
                                              ELSE saved[d]]
                                     ELSE saved
                         /\ data_index' = a.index
                         /\ index_file' =
                                save_data_index(index_file, a.index, index_io).file
                         /\ index_io' =
                                save_data_index(index_file, a.index, index_io).io
                         /\ registered' = registered \cup
                                             {<<a.entry_id, duplication_check.data_hash>>}
                         /\ ingest_log' = Append(ingest_log,
                                                 [response |-> response,
                                                  entry_id |-> a.entry_id,
                                                  stored |-> s.written])
                         /\ res' = [op |-> "ingest_four_d_data",
                                    out |-> Return(response),
                                    calls |-> CallsMade(alert, TRUE),
                                    finding |-> alert # <<>>]
        /\ UNCHANGED <<clock, hashVars, paperVars, tsdbVars, saverVars, schedVars,
                       loopVars>>

InitIngest ==
    /\ ingest_log = <<>>
    /\ notifications = <<>>

\* the components a specification does not use
(***************************************************************************)
(*                 THE INDEX FILE WHILE IT IS BEING SAVED                  *)
(*                                                                         *)
(* _save_data_index opens data_index.json with mode "w", which empties     *)
(* the file, and json.dump then writes the new text into it; the text is   *)
(* whole when the file is closed.  Between the two, the file holds the     *)
(* part of the text that was flushed so far.  A second DataDeduplication   *)
(* on the same directory reads the file in its constructor.                *)
(***************************************************************************)
Idle == [at |-> "idle"]

\* the writer has opened the file and has not closed it yet; call is what
\* the operation in progress will return
Saving(call) == [at |-> "open", call |-> call]

\* a _load_data_index that keeps whatever the file holds
load_data_index_Unchecked(file, whole) == file

\* _load_data_index: json.load of a text that is not whole raises, and the
\* handler of the exception leaves an empty index
load_data_index(file, whole) == IF whole THEN file ELSE <<>>

\* add_data_to_index up to the open() of _save_data_index
OpenForAdd(data_hash, data_type, paper_id, user_id) ==
    LET r == add_data_to_index(data_index, data_hash, data_type, paper_id,
                               user_id, clock)
    IN  /\ save_pc = Idle
        /\ \/ HasKey(data_index, r.entry_id)
           \/ Len(data_index) < MaxEntries
        /\ data_index' = r.index
        /\ previous_file' = index_file
        /\ index_file' = <<>>
        /\ save_pc' = Saving([op |-> "add_data_to_index", out |-> r.entry_id,
                              hash |-> data_hash])
        /\ UNCHANGED <<index_io, clock, registered, res, reader_index, hashVars, storeVars,
                       paperVars, tsdbVars, ingestVars, schedVars,
                       loopVars>>

\* remove_data_from_index of an entry there is, up to the open()
OpenForRemove(entry_id) ==
    /\ save_pc = Idle
    /\ HasKey(data_index, entry_id)
    /\ data_index' = DictDelete(data_index, entry_id)
    /\ previous_file' = index_file
    /\ index_file' = <<>>
    /\ save_pc' = Saving([op |-> "remove_data_from_index", out |-> entry_id,
                          hash |-> "-"])
    /\ UNCHANGED <<index_io, clock, registered, res, reader_index, hashVars, storeVars,
                   paperVars, tsdbVars, ingestVars, schedVars,
                       loopVars>>

\* the buffer of the open file is flushed: the text of the first n entries
\* is in the file
Flush(n) ==
    /\ save_pc # Idle
    /\ n > Len(index_file)
    /\ n <= Len(data_index)
    /\ index_file' = SubSeq(data_index, 1, n)
    /\ UNCHANGED <<data_index, index_io, clock, registered, res, save_pc, previous_file,
                   reader_index, hashVars, storeVars, paperVars, tsdbVars,
                   ingestVars, schedVars,
                       loopVars>>

\* json.dump is through and the with block closes the file; the operation
\* returns
CloseSave ==
    /\ save_pc # Idle
    /\ index_file' = data_index
    /\ save_pc' = Idle
    /\ previous_file' = data_index
    /\ registered' = IF save_pc.call.op = "add_data_to_index"
                     THEN registered \cup {<<save_pc.call.out, save_pc.call.hash>>}
                     ELSE {r \in registered : r[1] # save_pc.call.out}
    /\ res' = [op |-> save_pc.call.op,
               out |-> IF save_pc.call.op = "add_data_to_index"
                       THEN save_pc.call.out ELSE "True"]
    /\ UNCHANGED <<data_index, index_io, clock, reader_index, hashVars, storeVars,
                   paperVars, tsdbVars, ingestVars, schedVars,
                       loopVars>>

\* DataDeduplication.__init__ of a second object on the same directory
ReaderLoad ==
    /\ reader_index' = load_data_index(index_file, save_pc = Idle)
    /\ res' = [op |-> "_load_data_index", out |-> reader_index',
               previous |-> previous_file, new |-> data_index]
    /\ UNCHANGED <<idxVars, save_pc, previous_file, hashVars, storeVars,
                   paperVars, tsdbVars, ingestVars, schedVars,
                       loopVars>>

\* no save is in progress and no second object has been constructed
InitSaver ==
    /\ save_pc = Idle
    /\ previous_file = <<>>
    /\ reader_index = <<>>

(***************************************************************************)
(*                THE INDEX FILE WHEN ITS I/O FAILS                        *)
(***************************************************************************)
\* DataDeduplication(storage_path): a new object on the directory; it knows
\* the registrations it has loaded
NewDataDeduplication ==
    LET loaded == load_data_index(index_file, index_io = "ok")
    IN  /\ data_index' = loaded
        /\ registered' = {<<loaded[i].entry_id, loaded[i].hash>> :
                             i \in 1..Len(loaded)}
        /\ res' = [op |-> "DataDeduplication", out |-> Return(None),
                   readable |-> index_io = "ok"]
        /\ UNCHANGED <<index_file, index_io, clock, notIdxVars>>

\* the text of data_index.json is damaged on disk
CorruptFile ==
    /\ index_io = "ok"
    /\ index_io' = "corrupt"
    /\ UNCHANGED <<data_index, index_file, clock, registered, res, notIdxVars>>

\* the file can no longer be opened
DenyAccess ==
    /\ index_io = "ok"
    /\ index_io' = "denied"
    /\ UNCHANGED <<data_index, index_file, clock, registered, res, notIdxVars>>

\* the file can be opened again
GrantAccess ==
    /\ index_io = "denied"
    /\ index_io' = "ok"
    /\ UNCHANGED <<data_index, index_file, clock, registered, res, notIdxVars>>

(***************************************************************************)
(*                      THE DEDUPLICATION SCHEDULER                        *)
(*                                                                         *)
(* A DeduplicationScheduler constructs a DataDeduplication of its own,     *)
(* which loads data_index.json once, in the constructor.  The jobs are     *)
(* those of the default scheduler of the schedule module.                  *)
(***************************************************************************)
MaxJobs == 2        \* the jobs start_scheduler registers before a stop
MaxAlerts == 1      \* no scan starts with more alerts than this saved

\* the intervals a configuration may name; start_scheduler knows the first
\* three
Intervals == {"daily", "weekly", "monthly", "hourly"}

ScheduleConfig(enabled, interval) ==
    [enabled |-> enabled, interval |-> interval, time |-> "00:00"]

\* _load_schedule_config when config.yaml cannot be read
DefaultScheduleConfig == ScheduleConfig(FALSE, "daily")

NoMonth == "AttributeError: 'Job' object has no attribute 'month'"

\* start_scheduler: what it returns or raises, is_running and the number of
\* registered jobs afterwards.  schedule.every().month does not exist.
start_scheduler(config, running, registered_jobs) ==
    IF ~config.enabled
    THEN [out |-> Return(None), is_running |-> running, jobs |-> registered_jobs]
    ELSE IF config.interval = "daily" \/ config.interval = "weekly"
    THEN [out |-> Return(None), is_running |-> TRUE, jobs |-> registered_jobs + 1]
    ELSE IF config.interval = "monthly"
    THEN [out |-> Raise(NoMonth), is_running |-> running, jobs |-> registered_jobs]
    ELSE [out |-> Return(None), is_running |-> TRUE, jobs |-> registered_jobs]

ScheduledDuplicateMessage == "Exact duplicate found during scheduled deduplication"
ScheduledSimilarMessage == "Similar data found during scheduled deduplication"

\* the alerts run_deduplication sends for one entry
AlertsFor(entry, duplicate_check) ==
    (IF duplicate_check.has_duplicate
     THEN <<[user_id |-> entry.user_id, message |-> ScheduledDuplicateMessage]>>
     ELSE <<>>)
    \o (IF duplicate_check.has_similar
        THEN <<[user_id |-> entry.user_id, message |-> ScheduledSimilarMessage]>>
        ELSE <<>>)

RECURSIVE Flatten(_)
Flatten(seqs) == IF seqs = <<>> THEN <<>> ELSE Head(seqs) \o Flatten(Tail(seqs))

\* run_deduplication over the index of the scheduler's DataDeduplication;
\* data_ids is Nothing (None) or Some set of entry ids (a list); the test
\* "if data_ids and entry_id not in data_ids" skips an entry only for a list
\* that is not empty
run_deduplication(index, data_ids, now) ==
    LET truthy == data_ids # Nothing /\ data_ids[1] # {}
        checked == SelectSeq(index,
                       LAMBDA e : ~(truthy /\ e.entry_id \notin data_ids[1]))
        check(e) == check_duplication_by_hash(index, e.hash, e.data_type)
    IN  [results |->
            [timestamp |-> now,
             total_data |-> Len(index),
             checked_data |-> Len(checked),
             duplicate_found |->
                 Len(SelectSeq(checked, LAMBDA e : check(e).has_duplicate)),
             similar_found |->
                 Len(SelectSeq(checked, LAMBDA e : check(e).has_similar)),
             details |->
                 [i \in 1..Len(checked) |->
                     [entry_id |-> checked[i].entry_id,
                      paper_id |-> checked[i].paper_id,
                      user_id |-> checked[i].user_id,
                      data_type |-> checked[i].data_type,
                      timestamp |-> checked[i].timestamp,
                      has_duplicate |-> check(checked[i]).has_duplicate,
                      has_similar |-> check(checked[i]).has_similar,
                      recommendation |-> check(checked[i]).recommendation]]],
         alerts |->
            Flatten([i \in 1..Len(checked) |->
                        AlertsFor(checked[i], check(checked[i]))])]

\* _save_deduplication_results: the file name has the second of the clock
LogFile(now) == "deduplication_" \o ToString(now) \o ".json"

\* ---- the calls ----
\* DeduplicationScheduler(config_path), while no job of an earlier object
\* is registered; config is what config.yaml gives
NewScheduler(config) ==
    /\ jobs = 0
    /\ sched_index' = load_data_index(index_file, TRUE)
    /\ schedule_config' = config
    /\ is_running' = FALSE
    /\ res' = [op |-> "DeduplicationScheduler"]
    /\ UNCHANGED <<jobs, dedup_logs, idxVars, hashVars, storeVars, paperVars,
                   tsdbVars, ingestVars, saverVars,
                       loopVars>>

ConfigureSchedule(interval) ==
    /\ schedule_config' = ScheduleConfig(TRUE, interval)
    /\ res' = [op |-> "configure_schedule", interval |-> interval]
    /\ UNCHANGED <<is_running, jobs, sched_index, dedup_logs, idxVars, hashVars,
                   storeVars, paperVars, tsdbVars, ingestVars, saverVars,
                       loopVars>>

StartScheduler ==
    LET r == start_scheduler(schedule_config, is_running, jobs)
    IN  /\ r.jobs <= MaxJobs
        /\ is_running' = r.is_running
        /\ jobs' = r.jobs
        /\ res' = [op |-> "start_scheduler", config |-> schedule_config,
                   out |-> r.out]
        /\ UNCHANGED <<schedule_config, sched_index, dedup_logs, idxVars,
                       hashVars, storeVars, paperVars, tsdbVars, ingestVars,
                       saverVars,
                       loopVars>>

\* stop_scheduler: schedule.clear() removes every job
StopScheduler ==
    /\ is_running' = FALSE
    /\ jobs' = 0
    /\ res' = [op |-> "stop_scheduler"]
    /\ UNCHANGED <<schedule_config, sched_index, dedup_logs, idxVars, hashVars,
                   storeVars, paperVars, tsdbVars, ingestVars, saverVars,
                       loopVars>>

\* what one scan changes, and what is kept of it: how it was started, the
\* index file and is_running as they were when it started
Scan(via, data_ids, times) ==
    LET r == run_deduplication(sched_index, data_ids, clock)
    IN  /\ Len(notifications) <= MaxAlerts
        /\ notifications' =
               SaveNotifications(notifications,
                                 Flatten([i \in 1..times |-> r.alerts]))
        /\ dedup_logs' = WriteFile(dedup_logs, LogFile(clock), r.results)
        /\ res' = [op |-> "run_deduplication", via |-> via,
                   data_ids |-> data_ids, out |-> Return(r.results),
                   alerts |-> r.alerts,
                   index_file |-> index_file, was_running |-> is_running]
        /\ UNCHANGED <<schedule_config, is_running, jobs, sched_index,
                       ingest_log, idxVars, hashVars, storeVars, paperVars,
                       tsdbVars, saverVars,
                       loopVars>>

\* one turn of the loop of run_scheduler at the time of day of the jobs:
\* schedule.run_pending() runs every registered job
RunPending ==
    /\ is_running
    /\ jobs > 0
    /\ Scan("tick", Nothing, jobs)

TriggerManualDeduplication(data_ids) == Scan("manual", data_ids, 1)

\* the orchestrator has constructed its scheduler on an empty storage
\* directory, without a config.yaml
InitScheduler ==
    /\ schedule_config = DefaultScheduleConfig
    /\ is_running = FALSE
    /\ jobs = 0
    /\ sched_index = <<>>
    /\ dedup_logs = <<>>

\* no run_scheduler is executing, and the orchestrator has been constructed:
\* it is not monitoring and its queue is empty
InitLoop ==
    /\ loop_pc = "none"
    /\ pending = 0
    /\ scheduler_task = "None"
    /\ monitoring_running = FALSE
    /\ task_queue = <<>>
    /\ mon_pc = "idle"
    /\ handled = {}

IdleOthers ==
    /\ InitLoop
    /\ InitPaper
    /\ InitSaver
    /\ InitScheduler
    /\ InitTSDB
    /\ strftime_pads = TRUE
    /\ lazy_annotations = TRUE
    /\ InitIngest

EntryIds == {EntryId(p, u, t) : p \in Papers, u \in Users, t \in 0..MaxClock}

\* no dataset is being hashed
IdleHash ==
    /\ in_a = NoData
    /\ in_b = NoData
    /\ hash_a = NotHashed
    /\ hash_b = NotHashed
    /\ numpy_tostring = TRUE

InitIndex ==
    /\ data_index = <<>>
    /\ index_file = <<>>
    /\ index_io = "ok"
    /\ clock = 0
    /\ registered = {}

Init ==
    /\ InitIndex
    /\ IdleHash
    /\ InitStore
    /\ IdleOthers
    /\ res = NoCall

Next ==
    \/ \E h \in Hashes, t \in DataTypes, p \in Papers, u \in Users :
          AddDataToIndex(h, t, p, u)
    \/ \E id \in EntryIds : RemoveDataFromIndex(id)
    \/ \E h \in Hashes, t \in DataTypes : CheckDuplicationByHash(h, t)
    \/ Tick

Spec == Init /\ [][Next]_vars

(***************************************************************************)
(*                    CLAIMS ABOUT THE FINGERPRINT INDEX                   *)
(***************************************************************************)

\* the registration with this entry_id and hash is found as an exact match
FoundExact(entry_id, data_hash, data_type) ==
    LET v == check_duplication_by_hash(data_index, data_hash, data_type)
    IN  /\ v.has_duplicate
        /\ \E i \in 1..Len(v.similar_data) :
              /\ v.similar_data[i].entry_id = entry_id
              /\ v.similar_data[i].similarity = SIM_EXACT

\* C1: once add_data_to_index(fp, ...) has returned an entry id, and after any
\* further registrations and removals of other entries, a check of fp reports
\* has_duplicate and lists that entry with similarity 1.0, as long as the
\* entry id has not been removed.
C1_RegisteredIsFoundExact ==
    \A r \in registered : \A t \in DataTypes : FoundExact(r[1], r[2], t)

\* C9: when the index holds an entry of category cat and no entry whose
\* fingerprint is fp2, a check of (fp2, cat) reports has_similar, does not
\* report has_duplicate, and every match it lists has similarity 0.5.
C9_SameCategoryOtherFingerprint ==
    \A fp2 \in Hashes, cat \in DataTypes :
        LET v == check_duplication_by_hash(data_index, fp2, cat) IN
        (/\ \E i \in 1..Len(data_index) :
               data_index[i].data_type = cat /\ data_index[i].hash # fp2
         /\ \A i \in 1..Len(data_index) : data_index[i].hash # fp2)
        => /\ v.has_similar
           /\ ~v.has_duplicate
           /\ Len(v.similar_data) > 0
           /\ \A i \in 1..Len(v.similar_data) :
                 v.similar_data[i].similarity = SIM_TYPE

\* C9's case: a check has just returned for a fingerprint the index does not
\* hold and a category in which it holds two entries
C9_Witness ==
    /\ res.op = "check_duplication_by_hash"
    /\ res.out = check_duplication_by_hash(data_index, res.out.data_hash,
                                            res.out.data_type)
    /\ \A i \in 1..Len(data_index) : data_index[i].hash # res.out.data_hash
    /\ Len(res.out.similar_data) = 2
    /\ res.out.has_similar

(***************************************************************************)
(*                            THE FINGERPRINT                              *)
(***************************************************************************)
\* the index is not used while two datasets are hashed
InitH ==
    /\ InitHash
    /\ InitIndex
    /\ InitStore
    /\ IdleOthers
    /\ res = NoCall

NextH == HashA \/ HashB

SpecHash == InitH /\ [][NextH]_vars

Perms(n) == {p \in [1..n -> 1..n] : \A i, j \in 1..n : i # j => p[i] # p[j]}

\* b is a with its rows and its columns in another order
TablePermuted(a, b, p, q) ==
    /\ b.columns = Permute(a.columns, q)
    /\ b.rows = [i \in 1..Len(a.rows) |-> Permute(a.rows[p[i]], q)]

\* two datasets of the same content: they differ at most in row or column
\* order (tables; the row labels are no content), in element order (arrays
\* of one dtype and shape) or in key order (dicts)
SameContent(a, b) ==
    /\ a.kind = b.kind
    /\ CASE a.kind = "DataFrame" ->
              /\ Len(a.rows) = Len(b.rows)
              /\ Len(a.columns) = Len(b.columns)
              /\ \E p \in Perms(Len(a.rows)), q \in Perms(Len(a.columns)) :
                    TablePermuted(a, b, p, q)
         [] a.kind = "ndarray" ->
              /\ a.dtype = b.dtype
              /\ a.shape = b.shape
              /\ \E p \in Perms(Len(a.flat)) : b.flat = Permute(a.flat, p)
         [] a.kind = "dict" ->
              /\ Len(a.items) = Len(b.items)
              /\ \E p \in Perms(Len(a.items)) : b.items = Permute(a.items, p)
         [] OTHER -> a = b

\* two datasets that differ only in order: as SameContent, and the row labels
\* of a table are positional in both or have moved with the rows
DifferOnlyInOrder(a, b) ==
    /\ SameContent(a, b)
    /\ a.kind = "DataFrame" =>
          \E p \in Perms(Len(a.rows)), q \in Perms(Len(a.columns)) :
              /\ TablePermuted(a, b, p, q)
              /\ \/ b.index = a.index
                 \/ b.index = Permute(a.index, p)

BothHashed == hash_a # NotHashed /\ hash_b # NotHashed

\* C2: two datasets that differ only in row or column order (tables), in
\* element order (arrays) or in key order (dicts) get the same fingerprint.
C2_OrderInsensitive ==
    (BothHashed /\ DifferOnlyInOrder(in_a, in_b)) => hash_a = hash_b

\* C3: two datasets whose content differs, not merely their row, element or
\* key order, get different fingerprints (SHA-256 taken as collision-free).
C3_DifferentContentDifferentHash ==
    (BothHashed /\ ~SameContent(in_a, in_b)) => hash_a # hash_b

(***************************************************************************)
(*                   THE ENCRYPTED OBJECT STORE: ONE OBJECT                *)
(***************************************************************************)
Array12 == NdArray("int64", <<2>>, <<IntVal(1), IntVal(2)>>)
Array21 == NdArray("int64", <<2>>, <<IntVal(2), IntVal(1)>>)

\* the payloads stored: an array, keyed collections of one and of two
\* arrays, and a table with a column of strings
StorePayloads ==
    {Array12,
     Dict(<<<<"temperature", Array12>>>>),
     Dict(<<<<"temperature", Array12>>, <<"humidity", Array21>>>>),
     DataFrame(<<0, 1>>, <<"name", "age">>,
               <<<<StrVal("a"), IntVal(1)>>, <<StrVal("b"), IntVal(2)>>>>)}

\* SpaceCoordinate(...).dict()
Coord1 == [latitude |-> 1, longitude |-> 2, altitude |-> 0, coordinate_system |-> "WGS84"]

TimeFilters == {Nothing} \cup {Some(t) : t \in Times}

InitS ==
    /\ InitStore
    /\ InitIndex
    /\ IdleHash
    /\ IdleOthers
    /\ res = NoCall

NextStore ==
    \/ \E x \in StorePayloads, c \in {None, Coord1}, k \in Keys :
          SaveFourDData(x, "d1", "U1", "P1", 0, c, k)
    \/ \E d \in {"d1", "d2"}, k \in Keys, t \in TimeFilters,
          c \in {None, Coord1} :
          LoadFourDData(d, k, t, c)
    \/ \E part \in {"ciphertext", "tag"} : TamperBlob("d1", part)

SpecStore == InitS /\ [][NextStore]_vars

\* == of a loaded payload and the payload that was stored: two dicts are equal
\* when they map the same keys to equal values
DictMap(x) ==
    [k \in {x.items[i][1] : i \in 1..Len(x.items)} |->
        x.items[CHOOSE i \in 1..Len(x.items) : x.items[i][1] = k][2]]
PayloadEqual(loaded, stored) ==
    IF stored.kind = "dict"
    THEN loaded.kind = "dict" /\ loaded.map = DictMap(stored)
    ELSE loaded = stored

\* C4: for every supported payload and every key, load_four_d_data(data_id,
\* key) after save_four_d_data(X, data_id, ..., key) returns a payload equal
\* to X, a keyed collection as a keyed collection with the same keys, and the
\* metadata that was stored.
C4_RoundTrip ==
    \A d \in DOMAIN saved :
        saved[d].intact =>
            LET r == load_four_d_data(blobs, d, saved[d].key, Nothing, None).out
            IN  /\ r.ok
                /\ PayloadEqual(r.val.data, saved[d].payload)
                /\ r.val.metadata = saved[d].metadata

\* C5: load_four_d_data with another key than the blob was written with, or
\* on a blob that was altered after it was written, raises the integrity
\* error and returns no payload and no metadata.
C5_WrongKeyOrTamperedFails ==
    \A d \in DOMAIN blobs, k \in Keys, t \in TimeFilters,
       c \in {None, Coord1} :
        (k # saved[d].key \/ ~saved[d].intact) =>
            load_four_d_data(blobs, d, k, t, c).out = Raise(DecryptionFailed)

\* C5's case: a load with the other key of an intact blob has raised
C5_Witness ==
    /\ res.op = "load_four_d_data"
    /\ res.data_id \in DOMAIN blobs
    /\ saved[res.data_id].intact
    /\ res.key # saved[res.data_id].key
    /\ res.out = Raise(DecryptionFailed)

(***************************************************************************)
(*              THE ENCRYPTED OBJECT STORE: TRACING A PAPER                *)
(***************************************************************************)
TracePayloads == {Array12, Dict(<<<<"temperature", Array12>>>>)}

NextTrace ==
    \/ \E x \in TracePayloads, d \in {"d1", "d2"}, p \in Papers,
          t \in Times, k \in Keys :
          SaveFourDData(x, d, "U1", p, t, None, k)
    \/ \E p \in Papers, u \in {"U1", "U2"}, t0 \in Times, t1 \in Times :
          t0 <= t1 /\ TraceFourDDataByTime(p, t0, t1, u, "k1")

SpecTrace == InitS /\ [][NextTrace]_vars

\* C10: trace_four_d_data_by_time(paper, start, end, user, key) returns a map
\* whose keys are exactly the data_ids of the blobs written with that key
\* whose metadata carry that paper_id and user_id and a capture timestamp
\* within start..end; it does not raise, also when the window excludes all.
C10_TraceExact ==
    \A p \in Papers, u \in {"U1", "U2"}, t0 \in Times, t1 \in Times, k \in Keys :
        LET r == trace_four_d_data_by_time(blobs, p, t0, t1, u, k).out IN
        /\ r.ok
        /\ DOMAIN r.val =
              {d \in DOMAIN blobs :
                  /\ saved[d].intact
                  /\ saved[d].key = k
                  /\ saved[d].metadata.paper_id = p
                  /\ saved[d].metadata.user_id = u
                  /\ t0 <= FromIsoFormat(saved[d].metadata.timestamp)
                  /\ FromIsoFormat(saved[d].metadata.timestamp) <= t1}

(***************************************************************************)
(*                    CLAIMS ABOUT THE PAPER VERSION GATE                  *)
(***************************************************************************)
Contents == {"c1"}

NextPaper ==
    \/ \E p \in PaperIds, n \in 0..MaxVersion, r \in Reasons, c \in Contents :
          AddNewVersion(p, PaperVersion(n, r, c))
    \/ \E p \in PaperIds, n \in 0..MaxVersion, r \in Reasons, c \in Contents :
          SaveNewVersion(p, PaperVersion(n, r, c), c)
    \/ \E p \in PaperIds : SavePaper(p)
    \/ \E p \in PaperIds : GetPaper(p)

SpecPaper == Init /\ [][NextPaper]_vars

\* C6: for a paper with latest version L, add_new_version and
\* save_new_version with version_number = L+1 succeed, append the version and
\* make L+1 the latest version; with any other version_number they raise and
\* leave latest_version, the version list in memory and every persisted file
\* unchanged.
C6_VersionGate ==
    [][res'.op \in {"add_new_version", "save_new_version"} =>
          LET p == res'.paper_id
              v == res'.version
          IN  IF v.version_number = papers[p].latest_version + 1
              THEN /\ res'.out.ok
                   /\ papers'[p].versions = Append(papers[p].versions, v)
                   /\ papers'[p].latest_version = papers[p].latest_version + 1
              ELSE /\ ~res'.out.ok
                   /\ papers' = papers
                   /\ files' = files]_vars

\* C6's case: save_new_version has let version 2 and then version 3 through
\* and has then refused version 3 once more
C6_Witness ==
    /\ res.op = "save_new_version"
    /\ ~res.out.ok
    /\ res.version.version_number = papers[res.paper_id].latest_version
    /\ Len(papers[res.paper_id].versions) = 2
    /\ PaperPath(res.paper_id) \in DOMAIN files
    /\ files[PaperPath(res.paper_id)].json = papers[res.paper_id]

(***************************************************************************)
(*                     CLAIMS ABOUT THE TEMPORAL INDEX                     *)
(***************************************************************************)
\* the insert timestamps: one before the year 1000, two a microsecond apart
\* and one months later
Stamps ==
    {Datetime(999, 1, 1, 0), Datetime(2024, 1, 1, 0), Datetime(2024, 1, 1, 1),
     Datetime(2024, 10, 1, 0)}

Reference == [data_id |-> "d1", timestamp |-> Datetime(2024, 1, 1, 0)]

InitT ==
    /\ InitLoop
    /\ InitIndex
    /\ IdleHash
    /\ InitStore
    /\ InitPaper
    /\ InitIngest
    /\ InitTSDB
    /\ InitSaver
    /\ InitScheduler
    /\ strftime_pads \in BOOLEAN
    /\ lazy_annotations \in BOOLEAN
    /\ res = NoCall

NextTSDB ==
    \/ \E p \in Papers, refs \in {<<>>, <<Reference>>}, t \in Stamps :
          InsertPaperVersion(p, VersionDict(1, "r1", refs), t)
    \/ \E p \in Papers, t0 \in Stamps, t3 \in Stamps :
          DatetimeLE(t0, t3) /\ GetVersionsByTimeRange(p, t0, t3)

SpecTSDB == InitT /\ [][NextTSDB]_vars

IngestFiles ==
    {DataFile(".csv", DataFrame(<<0, 1>>, <<"name", "age">>,
                  <<<<StrVal("a"), IntVal(1)>>, <<StrVal("b"), IntVal(2)>>>>)),
     DataFile(".csv", DataFrame(<<0, 1>>, <<"name", "age">>,
                  <<<<StrVal("b"), IntVal(1)>>, <<StrVal("a"), IntVal(2)>>>>)),
     DataFile(".csv", DataFrame(<<0, 1>>, <<"x", "y">>,
                  <<<<IntVal(1), IntVal(2)>>, <<IntVal(2), IntVal(1)>>>>)),
     DataFile(".npy", Array12),
     DataFile(".npy", NdArray("int64", <<2>>, <<IntVal(1), IntVal(1)>>)),
     DataFile(".txt", NoData)}

InitI ==
    /\ InitIndex
    /\ in_a = NoData
    /\ in_b = NoData
    /\ hash_a = NotHashed
    /\ hash_b = NotHashed
    /\ numpy_tostring \in BOOLEAN
    /\ InitStore
    /\ IdleOthers
    /\ res = NoCall

NextIngest ==
    \/ \E f \in IngestFiles, p \in Papers, deliverable \in BOOLEAN :
          Ingest(f, "U1", p, 0, "k1", deliverable)
    \/ Tick

SpecIngest == InitI /\ [][NextIngest]_vars

\* C8: starting from an empty index, three successive ingestions by one user
\* give: for the first dataset has_duplicate = false, has_similar = false and
\* the 'safe' recommendation; for identical content ingested again
\* has_duplicate = true and exactly one match, of similarity 1.0, that points
\* at the entry the first ingestion registered; for a third dataset of the
\* same category but different values has_similar = true and has_duplicate =
\* false.  All three ingestions store the object and register an entry.
C8_ThreeIngestions ==
    LET first == ingest_log[1]
        second == ingest_log[2]
        third == ingest_log[3]
    IN  (/\ Len(ingest_log) = 3
         /\ second.response.data_content = first.response.data_content
         /\ third.response.data_type = first.response.data_type
         /\ ~SameContent(third.response.data_content, first.response.data_content))
        => /\ ~first.response.duplication_check.has_duplicate
           /\ ~first.response.duplication_check.has_similar
           /\ first.response.duplication_check.recommendation
                 = generate_recommendation(FALSE, FALSE)
           /\ second.response.duplication_check.has_duplicate
           /\ Len(second.response.duplication_check.similar_data) = 1
           /\ second.response.duplication_check.similar_data[1].similarity = SIM_EXACT
           /\ second.response.duplication_check.similar_data[1].entry_id = first.entry_id
           /\ third.response.duplication_check.has_similar
           /\ ~third.response.duplication_check.has_duplicate
           /\ \A i \in 1..3 :
                 /\ ingest_log[i].response.data_id \in DOMAIN blobs
                 /\ HasKey(data_index, ingest_log[i].entry_id)


(***************************************************************************)
(* The index file read while it is being written.                          *)
(***************************************************************************)
NextIndexFile ==
    \/ \E h \in Hashes, t \in DataTypes : OpenForAdd(h, t, "P1", "U1")
    \/ \E id \in EntryIds : OpenForRemove(id)
    \/ \E n \in 1..MaxEntries : Flush(n)
    \/ CloseSave
    \/ ReaderLoad
    \/ Tick

SpecIndexFile == Init /\ [][NextIndexFile]_vars

\* C11: a reader that loads data_index.json while a writer persists it gets
\* the whole previous index or the whole new index, never an empty or a
\* partial one.
C11_ReaderSeesWholeIndex ==
    res.op = "_load_data_index" => res.out \in {res.previous, res.new}


\* C12: after save_four_d_data has returned successfully for a data_id, the
\* storage directory holds no unencrypted file of that data_id: only the
\* encrypted blob is there.
C12_NoPlaintextAfterSave ==
    (res.op = "save_four_d_data" /\ res.out.ok) =>
        /\ res.data_id \in DOMAIN blobs
        /\ ~\E f \in plain_files : f[1] = res.data_id


\* C13: an ingestion completes or fails as a whole: when the encrypted object
\* could not be written, ingest_four_d_data reports the failure to its caller
\* and registers no fingerprint entry; there is an entry only for uploads
\* whose blob was written.
C13_StoredOrNothing ==
    /\ \A i \in 1..Len(ingest_log) :
          HasKey(data_index, ingest_log[i].entry_id) =>
              ingest_log[i].response.data_id \in DOMAIN blobs
    /\ (res.op = "ingest_four_d_data" /\ res.out.ok) =>
          res.out.val.data_id \in DOMAIN blobs

\* the position of a call among the calls of an ingestion, 0 if not made
CallAt(calls, name) ==
    IF \E i \in 1..Len(calls) : calls[i] = name
    THEN CHOOSE i \in 1..Len(calls) : calls[i] = name
    ELSE 0

\* C14: an ingestion that finds a duplicate or a similar entry still makes
\* the store call, and it sends the alert only after the object was stored;
\* neither the finding nor an alert that cannot be delivered prevents the
\* store call.
C14_StoreThenAlert ==
    (res.op = "ingest_four_d_data" /\ res.finding) =>
        /\ CallAt(res.calls, "save_four_d_data") > 0
        /\ CallAt(res.calls, "send_deduplication_alert") > 0 =>
              CallAt(res.calls, "save_four_d_data")
                  < CallAt(res.calls, "send_deduplication_alert")


(***************************************************************************)
(* The scheduler next to the ingestion path.                               *)
(***************************************************************************)
NextScheduler ==
    \/ \E enabled \in BOOLEAN, i \in Intervals :
          NewScheduler(ScheduleConfig(enabled, i))
    \/ \E i \in Intervals : ConfigureSchedule(i)
    \/ StartScheduler
    \/ StopScheduler
    \/ RunPending
    \/ TriggerManualDeduplication(Nothing)
    \/ \E ids \in SUBSET {EntryId("P1", "U1", t) : t \in 0..MaxClock} :
          TriggerManualDeduplication(Some(ids))
    \/ \E h \in Hashes : AddDataToIndex(h, "tabular", "P1", "U1")
    \/ Tick

SpecScheduler == Init /\ [][NextScheduler]_vars

\* C15: start_scheduler with an enabled configuration registers the cadence
\* job; the scheduler counts as started exactly when its cadence job is
\* registered; a cadence tick never runs while it is stopped; start_scheduler
\* with a disabled configuration leaves it stopped.
C15_StartedIffJobRegistered ==
    /\ is_running <=> jobs > 0
    /\ (res.op = "start_scheduler" /\ res.config.enabled) =>
          res.out.ok /\ jobs > 0
    /\ (res.op = "run_deduplication" /\ res.via = "tick") => res.was_running
    /\ (res.op = "start_scheduler" /\ ~res.config.enabled) => ~is_running

\* the entry ids in a sequence of entries or of details
IdsOf(seq) == {seq[i].entry_id : i \in 1..Len(seq)}

\* C16: a tick or a manual trigger of the whole index checks the index as it
\* is then: every entry the ingestion path has registered before, also after
\* the scheduler was constructed, is iterated and counted.
C16_ScanSeesCurrentIndex ==
    (res.op = "run_deduplication" /\ res.data_ids = Nothing) =>
        /\ IdsOf(res.index_file) \subseteq IdsOf(res.out.val.details)
        /\ res.out.val.total_data = Len(res.index_file)


\* a call of add_data_to_index
SomeAdd ==
    \E h \in Hashes, t \in DataTypes, p \in Papers, u \in Users :
        AddDataToIndex(h, t, p, u)

\* C17: every add_data_to_index adds exactly one new entry under an
\* identifier the index did not hold: the index grows by one and every
\* entry it held stays as it was, also when the same paper and user register
\* twice at one reading of the clock.
C17_AddsOneFreshEntry ==
    [][SomeAdd =>
          /\ ~HasKey(data_index, res'.out)
          /\ Len(data_index') = Len(data_index) + 1
          /\ \A i \in 1..Len(data_index) : data_index'[i] = data_index[i]]_vars


\* C18: version numbers start at 1 and are strictly sequential: the first
\* version a new paper accepts is version 1, and the list of versions of a
\* paper holds exactly the versions 1..n, in this order.
C18_VersionsAreOneToN ==
    \A p \in PaperIds :
        \A i \in 1..Len(papers[p].versions) :
            papers[p].versions[i].version_number = i


\* C19: a check reports has_similar exactly when the index holds at least one
\* entry of the same category with a different fingerprint; an entry that
\* matches exactly does not by itself make has_similar true.
C19_SimilarIffOtherFingerprint ==
    \A fp \in Hashes, cat \in DataTypes :
        check_duplication_by_hash(data_index, fp, cat).has_similar
            <=> \E i \in 1..Len(data_index) :
                    data_index[i].data_type = cat /\ data_index[i].hash # fp


\* traces of a directory in which blobs are altered on disk or were written
\* with another key
NextTraceFaults ==
    \/ \E x \in TracePayloads, d \in {"d1", "d2"}, t \in Times, k \in Keys :
          SaveFourDData(x, d, "U1", "P1", t, None, k)
    \/ \E t0 \in Times, t1 \in Times :
          t0 <= t1 /\ TraceFourDDataByTime("P1", t0, t1, "U1", "k1")
    \/ \E d \in {"d1", "d2"}, part \in {"ciphertext", "tag"} : TamperBlob(d, part)

SpecTraceFaults == InitS /\ [][NextTraceFaults]_vars

\* the blobs a trace with this key cannot process: altered on disk, or
\* written with another key
Unprocessable(d, k) == ~saved[d].intact \/ saved[d].key # k

\* C20: when a blob of the directory cannot be processed, a trace does not
\* raise, leaves that blob out and still returns every other object that
\* matches the paper, the user and the window.
C20_SkipsBadReturnsOthers ==
    \A p \in {"P1"}, u \in {"U1"}, t0 \in Times, t1 \in Times :
        LET r == trace_four_d_data_by_time(blobs, p, t0, t1, u, "k1").out IN
        (\E bad \in DOMAIN blobs : Unprocessable(bad, "k1")) =>
            /\ r.ok
            /\ \A d \in DOMAIN blobs :
                  IF Unprocessable(d, "k1")
                  THEN d \notin DOMAIN r.val
                  ELSE (/\ saved[d].metadata.paper_id = p
                        /\ saved[d].metadata.user_id = u
                        /\ t0 <= FromIsoFormat(saved[d].metadata.timestamp)
                        /\ FromIsoFormat(saved[d].metadata.timestamp) <= t1)
                       => d \in DOMAIN r.val


\* C21: load_four_d_data fails with NotFound when the data_id has no blob;
\* with the right key, it fails with a mismatch error that is not NotFound
\* when a filter that is supplied differs from the stored metadata, and it
\* succeeds when every supplied filter equals the stored metadata.
C21_LoadFilters ==
    \A d \in {"d1", "d2"}, t \in TimeFilters, c \in {None, Coord1} :
        IF d \notin DOMAIN blobs
        THEN \A k \in Keys :
                load_four_d_data(blobs, d, k, t, c).out = Raise(NotFound(d))
        ELSE saved[d].intact =>
             LET r == load_four_d_data(blobs, d, saved[d].key, t, c).out
                 differs ==
                    \/ t # Nothing
                          /\ t[1] # FromIsoFormat(saved[d].metadata.timestamp)
                    \/ c # None /\ c # saved[d].metadata.space_coordinate
             IN  IF differs
                 THEN /\ ~r.ok
                      /\ r.err \in {TimestampMismatch, CoordinateMismatch}
                      /\ r.err # NotFound(d)
                 ELSE r.ok


\* a call of save_four_d_data
SomeSave ==
    \E x \in StorePayloads, c \in {None, Coord1}, k \in Keys :
        SaveFourDData(x, "d1", "U1", "P1", 0, c, k)

\* C22: a stored object is immutable: once save_four_d_data has written the
\* blob of a data_id, no later save_four_d_data changes that blob.
C22_BlobImmutable ==
    [][SomeSave => \A d \in DOMAIN blobs : blobs'[d] = blobs[d]]_vars


\* C23: every version event stored under the partition of a paper has a
\* lookup entry under the calendar year of its timestamp, and that entry
\* points to this very event, whatever was inserted after it.
C23_YearEntryPointsToEvent ==
    \A e \in inserted :
        LET ts_key == TsKey(e.timestamp, e.version.version_number, strftime_pads)
            year == StrftimeYear(e.timestamp, strftime_pads)
        IN  /\ ts_key \in DOMAIN tsdb.papers[e.paper_id]
            /\ year \in DOMAIN tsdb.timestamps
            /\ ts_key \in DOMAIN tsdb.timestamps[year]
            /\ tsdb.timestamps[year][ts_key] = <<"papers", e.paper_id, ts_key>>


(***************************************************************************)
(* The fingerprint index over a file whose I/O fails.                      *)
(***************************************************************************)
NextIndexFaults ==
    \/ \E h \in Hashes, t \in DataTypes : AddDataToIndex(h, t, "P1", "U1")
    \/ \E id \in EntryIds : RemoveDataFromIndex(id)
    \/ \E h \in Hashes, t \in DataTypes : CheckDuplicationByHash(h, t)
    \/ NewDataDeduplication
    \/ CorruptFile
    \/ DenyAccess
    \/ GrantAccess
    \/ Tick

SpecIndexFaults == Init /\ [][NextIndexFaults]_vars

\* the entry of the index with this id
EntryOf(index, entry_id) ==
    index[CHOOSE i \in 1..Len(index) : index[i].entry_id = entry_id]

\* C24: failures of the I/O of the index file do not reach the caller: a
\* DataDeduplication constructed over an unreadable file does not raise and
\* has an empty index; an add_data_to_index whose save fails still returns
\* its entry id, and the entry is in the index in memory and is found by the
\* checks of this object.
C24_IndexIOFailuresSwallowed ==
    /\ res.op = "DataDeduplication" =>
          /\ res.out.ok
          /\ ~res.readable => data_index = <<>>
    /\ (res.op = "add_data_to_index" /\ index_io = "denied") =>
          /\ HasKey(data_index, res.out)
          /\ LET e == EntryOf(data_index, res.out)
             IN  FoundExact(res.out, e.hash, e.data_type)

\* C24's cases: an object constructed over a damaged file that holds entries;
\* an entry registered in memory that the file does not hold
C24_Witness ==
    \/ /\ res.op = "DataDeduplication"
       /\ ~res.readable
       /\ index_file # <<>>
       /\ data_index = <<>>
    \/ /\ res.op = "add_data_to_index"
       /\ index_io = "denied"
       /\ HasKey(data_index, res.out)
       /\ ~HasKey(index_file, res.out)


\* C25: calculate_data_hash is total: whatever dataset it is given, also one
\* whose canonical string cannot be built or encoded, at the top level or
\* inside a value of a dict, it returns a fingerprint and never raises.
C25_HashIsTotal ==
    /\ hash_a # UnicodeEncodeError
    /\ hash_b # UnicodeEncodeError


\* some check of a fingerprint against the index
SomeCheck == \E h \in Hashes, t \in DataTypes : CheckDuplicationByHash(h, t)

C27_RemoveExactlyThatEntry ==
    [][\A id \in EntryIds :
          RemoveDataFromIndex(id) =>
             IF HasKey(data_index, id)
             THEN /\ res'.out = TRUE
                  /\ ~HasKey(data_index', id)
                  /\ Len(data_index') = Len(data_index) - 1
                  /\ \A i \in 1..Len(data_index) :
                        data_index[i].entry_id # id =>
                           \E j \in 1..Len(data_index') :
                              data_index'[j] = data_index[i]
                  /\ index_file' = data_index'
             ELSE /\ res'.out = FALSE
                  /\ UNCHANGED <<data_index, index_file, index_io>>]_vars

\* a removal has returned true and left another entry in index and file
C27_Witness ==
    /\ res.op = "remove_data_from_index"
    /\ res.out = TRUE
    /\ Len(data_index) > 0
    /\ index_file = data_index


\* the calls of the notifier of one run that go to this user
AlertsTo(alerts, user_id) == {j \in 1..Len(alerts) : alerts[j].user_id = user_id}

\* the users owning an entry the run flagged as duplicate or as similar
AffectedOwners(details) ==
    {details[i].user_id : i \in {k \in 1..Len(details) :
        details[k].has_duplicate \/ details[k].has_similar}}

\* C28: a tick alerts every affected owner exactly once: for every user
\* owning at least one entry the run flagged as duplicate or similar, the
\* notifier is called once for that user in that run, however many of the
\* user's entries are flagged and whatever the flags.
C28_OneAlertPerOwner ==
    (res.op = "run_deduplication" /\ res.via = "tick") =>
        \A u \in AffectedOwners(res.out.val.details) :
            Cardinality(AlertsTo(res.alerts, u)) = 1


\* the entries of the index have pairwise different fingerprints and
\* pairwise different categories
PairwiseDifferent(index) ==
    \A i, j \in 1..Len(index) :
        i # j => /\ index[i].hash # index[j].hash
                 /\ index[i].data_type # index[j].data_type

\* C29: a tick flags an entry as duplicate only when another entry of the
\* index (another entry_id) has its fingerprint, and as similar only when
\* another entry has its category and a different fingerprint; over an index
\* of pairwise different fingerprints and categories duplicate_found and
\* similar_found are 0 and no alert is sent.
C29_FlagsOnlyOtherEntries ==
    (res.op = "run_deduplication" /\ res.via = "tick") =>
        /\ \A i \in 1..Len(res.out.val.details) :
              LET d == res.out.val.details[i]
                  own == EntryOf(sched_index, d.entry_id)
                  others == {e \in Range(sched_index) : e.entry_id # d.entry_id}
              IN  /\ d.has_duplicate => \E e \in others : e.hash = own.hash
                  /\ d.has_similar =>
                        \E e \in others : /\ e.data_type = own.data_type
                                          /\ e.hash # own.hash
        /\ PairwiseDifferent(sched_index) =>
              /\ res.out.val.duplicate_found = 0
              /\ res.out.val.similar_found = 0
              /\ res.alerts = <<>>


\* C30: trigger_manual_deduplication runs whether or not the scheduler is
\* started; given a list of entry ids, empty or naming ids that are not in
\* the index, it checks exactly the entries of the index whose id is in the
\* list: checked_data is their number and details lists them and no other;
\* given no list it checks every entry.
C30_ManualChecksListedEntries ==
    (res.op = "run_deduplication" /\ res.via = "manual") =>
        LET listed == IF res.data_ids = Nothing
                      THEN IdsOf(sched_index)
                      ELSE IdsOf(sched_index) \cap res.data_ids[1]
        IN  /\ res.out.ok
            /\ res.out.val.checked_data = Cardinality(listed)
            /\ IdsOf(res.out.val.details) = listed
            /\ Len(res.out.val.details) = Cardinality(listed)


\* the queries without a time range, over inserts of two version numbers at
\* three of the timestamps
QueryStamps ==
    {Datetime(999, 1, 1, 0), Datetime(2024, 1, 1, 0), Datetime(2024, 1, 1, 1)}

NextQueries ==
    \/ \E p \in Papers, n \in 1..2, t \in QueryStamps :
          InsertPaperVersion(p, VersionDict(n, "r1", <<>>), t)
    \/ \E p \in Papers :
          InsertPaperVersion(p, VersionDict(1, "r1", <<Reference>>),
                             Datetime(2024, 1, 1, 0))
    \/ \E p \in Papers : GetAllVersions(p)
    \/ \E p \in Papers, t \in QueryStamps : GetVersionByTimestamp(p, t)

SpecQueries == InitT /\ [][NextQueries]_vars

\* C33: after any sequence of inserts, get_all_versions(paper) returns every
\* event inserted for that paper, each once, and no event of another paper,
\* sorted ascending by version_number; for a paper without a partition it
\* returns the empty list; it does not raise.
C33_AllVersionsExact ==
    res.op = "get_all_versions" =>
        /\ res.out.ok
        /\ LET out == res.out.val
               want == {e \in inserted : e.paper_id = res.paper_id}
           IN  /\ Len(out) = Cardinality(want)
               /\ \A e \in want : \E i \in 1..Len(out) : out[i] = e.version
               /\ \A i, j \in 1..Len(out) :
                     i < j => out[i].version_number <= out[j].version_number
               /\ res.paper_id \notin DOMAIN tsdb.papers => out = <<>>

\* C34: get_version_by_timestamp(paper, t) returns an event inserted for
\* that paper at exactly t whenever there is one, and None when the paper
\* has no partition or no event of it was inserted at t; it never returns an
\* event of another timestamp or of another paper.
C34_ExactTimestampLookup ==
    res.op = "get_version_by_timestamp" =>
        /\ res.out.ok
        /\ LET at == {e \in inserted : /\ e.paper_id = res.paper_id
                                       /\ e.timestamp = res.timestamp}
           IN  IF at = {} THEN res.out.val = Nothing
               ELSE \E e \in at : res.out.val = Some(e.version)


\* C36: after load_four_d_data has returned or raised, whatever the outcome,
\* a filter mismatch included, the storage directory holds no decrypted
\* temporary copy of the object.
C36_NoTempAfterLoad ==
    res.op = "load_four_d_data" => TempFile(res.data_id) \notin plain_files


\* C38: at most one cadence job is registered for the scheduler at any
\* time: a start_scheduler that follows another without a stop_scheduler
\* between them registers no second job, so a due time runs one scan.
C38_AtMostOneJob == jobs <= 1


\* C39: for every DynamicPaper, after any sequence of add_new_version calls
\* that succeeded or failed: when the version list is not empty,
\* latest_version is the version_number of its last element, consecutive
\* elements differ by exactly 1, and no version_number occurs twice.
C39_VersionListConsistent ==
    \A p \in PaperIds :
        LET versions == papers[p].versions IN
        versions # <<>> =>
            /\ papers[p].latest_version = versions[Len(versions)].version_number
            /\ \A i \in 1..(Len(versions) - 1) :
                  versions[i + 1].version_number = versions[i].version_number + 1
            /\ \A i, j \in 1..Len(versions) :
                  i # j => versions[i].version_number # versions[j].version_number

\* an add_new_version has been refused on a paper that holds two versions
C39_Witness ==
    /\ res.op = "add_new_version"
    /\ ~res.out.ok
    /\ Len(papers[res.paper_id].versions) >= 2


(***************************************************************************)
(* Two DataDeduplication objects on one storage path: data_index is the    *)
(* dict of the first, reader_index the dict of the second, index_file the  *)
(* file both save to.  Every call runs from start to end before the next.  *)
(***************************************************************************)
\* add_data_to_index through the second object
OtherAddDataToIndex(data_hash, data_type, paper_id, user_id) ==
    LET r == add_data_to_index(reader_index, data_hash, data_type, paper_id,
                               user_id, clock)
    IN  /\ \/ HasKey(reader_index, r.entry_id)
           \/ Len(reader_index) < MaxEntries
        /\ reader_index' = r.index
        /\ index_file' = save_data_index(index_file, reader_index', index_io).file
        /\ index_io' = save_data_index(index_file, reader_index', index_io).io
        /\ registered' = registered \cup {<<r.entry_id, data_hash>>}
        /\ res' = [op |-> "add_data_to_index", out |-> r.entry_id]
        /\ UNCHANGED <<data_index, clock, save_pc, previous_file, hashVars,
                       storeVars, paperVars, tsdbVars, ingestVars, schedVars,
                       loopVars>>

\* remove_data_from_index through the second object
OtherRemoveDataFromIndex(entry_id) ==
    /\ IF HasKey(reader_index, entry_id)
       THEN /\ reader_index' = DictDelete(reader_index, entry_id)
            /\ index_file' = save_data_index(index_file, reader_index', index_io).file
            /\ index_io' = save_data_index(index_file, reader_index', index_io).io
            /\ res' = [op |-> "remove_data_from_index", out |-> TRUE]
       ELSE /\ UNCHANGED <<reader_index, index_file, index_io>>
            /\ res' = [op |-> "remove_data_from_index", out |-> FALSE]
    /\ registered' = {r \in registered : r[1] # entry_id}
    /\ UNCHANGED <<data_index, clock, save_pc, previous_file, hashVars,
                   storeVars, paperVars, tsdbVars, ingestVars, schedVars,
                       loopVars>>

NextTwoObjects ==
    \/ \E h \in Hashes : AddDataToIndex(h, "tabular", "P1", "U1")
    \/ \E id \in EntryIds : RemoveDataFromIndex(id)
    \/ ReaderLoad
    \/ \E h \in Hashes : OtherAddDataToIndex(h, "tabular", "P2", "U1")
    \/ \E id \in EntryIds : OtherRemoveDataFromIndex(id)
    \/ Tick

SpecTwoObjects == Init /\ [][NextTwoObjects]_vars

\* C37: with two DataDeduplication objects on the same storage path, every
\* entry whose add_data_to_index has returned after its save, and which was
\* not removed since, is in the index file, also after later registrations
\* and removals through the other object, the calls not overlapping in time.
C37_NoLostRegistration ==
    \A r \in registered : HasKey(index_file, r[1])


(***************************************************************************)
(*                       THE LOOP OF run_scheduler                         *)
(*                                                                         *)
(* run_scheduler tests is_running, lets schedule.run_pending() run the due *)
(* jobs and sleeps a minute.  run_pending builds the sorted list of the    *)
(* due jobs first and then runs them one after the other; neither it nor   *)
(* run_scheduler nor run_deduplication has a try.  The loop runs in a      *)
(* thread of its own, or inside _run_scheduler on the thread of the event  *)
(* loop of the orchestrator.                                               *)
(***************************************************************************)
RunningLoop == "RuntimeError: asyncio.run() cannot be called from a running event loop"

\* the loop is inside run_scheduler
Looping == loop_pc \in {"test", "pending", "sleep"}

\* run_scheduler is called on a thread of its own
RunScheduler ==
    /\ ~Looping
    /\ scheduler_task = "None"
    /\ loop_pc' = "test"
    /\ UNCHANGED <<pending, scheduler_task, monitoring_running, task_queue,
                   mon_pc, handled, res, idxVars, hashVars, storeVars,
                   paperVars, tsdbVars, ingestVars, saverVars, schedVars>>

\* how _run_scheduler ends when run_scheduler does: the task is finished,
\* unless stop_monitoring has dropped it already
TaskAfterLoop ==
    IF scheduler_task = "running" THEN "done"
    ELSE IF scheduler_task = "abandoned" THEN "None"
    ELSE scheduler_task

\* while self.is_running: schedule.run_pending() lists the due jobs; the
\* jobs of one scheduler have the same time of day, so all are due or none
\* (the time of day comes while at most MaxAlerts alerts are saved)
LoopTest(due) ==
    /\ loop_pc = "test"
    /\ due => Len(notifications) <= MaxAlerts
    /\ loop_pc' = IF ~is_running THEN "returned"
                  ELSE IF due /\ jobs > 0 THEN "pending" ELSE "sleep"
    /\ pending' = IF is_running /\ due THEN jobs ELSE 0
    /\ scheduler_task' = IF is_running THEN scheduler_task ELSE TaskAfterLoop
    /\ UNCHANGED <<monitoring_running, task_queue, mon_pc, handled, res,
                   idxVars, hashVars, storeVars, paperVars, tsdbVars,
                   ingestVars, saverVars, schedVars>>

\* _run_job of the next due job: run_deduplication().  asyncio.run raises
\* on the thread of a running event loop; elsewhere the first `delivered`
\* alerts are saved and the next one, if there is one, raises in
\* _save_notification.  The exception leaves run_deduplication, run_pending
\* and run_scheduler.
RunJob(delivered) ==
    LET r == run_deduplication(sched_index, Nothing, clock)
        on_event_loop == scheduler_task = "running"
        failed == delivered < Len(r.alerts)
    IN  /\ loop_pc = "pending"
        /\ pending > 0
        /\ delivered \in 0..Len(r.alerts)
        /\ (on_event_loop /\ r.alerts # <<>>) => delivered = 0
        /\ notifications' =
               SaveNotifications(notifications, SubSeq(r.alerts, 1, delivered))
        /\ dedup_logs' = IF failed THEN dedup_logs
                         ELSE WriteFile(dedup_logs, LogFile(clock), r.results)
        /\ res' = [op |-> "run_deduplication", via |-> "tick",
                   data_ids |-> Nothing,
                   out |-> IF ~failed THEN Return(r.results)
                           ELSE IF on_event_loop THEN Raise(RunningLoop)
                           ELSE Raise(NotifierError),
                   alerts |-> r.alerts, delivered |-> delivered,
                   index_file |-> index_file, was_running |-> is_running]
        /\ pending' = IF failed THEN 0 ELSE pending - 1
        /\ loop_pc' = IF failed THEN "raised"
                      ELSE IF pending = 1 THEN "sleep" ELSE "pending"
        /\ scheduler_task' = IF failed THEN TaskAfterLoop ELSE scheduler_task
        /\ UNCHANGED <<monitoring_running, task_queue, mon_pc, handled,
                       schedule_config, is_running, jobs, sched_index,
                       ingest_log, idxVars, hashVars, storeVars, paperVars,
                       tsdbVars, saverVars>>

\* time.sleep(60) is over
LoopSleep ==
    /\ loop_pc = "sleep"
    /\ loop_pc' = "test"
    /\ UNCHANGED <<pending, scheduler_task, monitoring_running, task_queue,
                   mon_pc, handled, res, idxVars, hashVars, storeVars,
                   paperVars, tsdbVars, ingestVars, saverVars, schedVars>>

LoopStep ==
    \/ \E due \in BOOLEAN : LoopTest(due)
    \/ \E delivered \in 0..(2 * MaxEntries) : RunJob(delivered)
    \/ LoopSleep

\* a scheduler whose loop runs on a thread of its own, next to the calls of
\* the owner of the scheduler and to a registration
NextLoop ==
    \/ ~Looping /\ NewScheduler(ScheduleConfig(TRUE, "daily"))
    \/ StartScheduler
    \/ StopScheduler
    \/ RunScheduler
    \/ LoopStep
    \/ AddDataToIndex("h1", "tabular", "P1", "U1")
    \/ Tick

\* the thread of the loop is scheduled again and again
SpecLoop == Init /\ [][NextLoop]_vars /\ WF_vars(LoopStep)

\* C31: when the delivery of the alert of an entry fails during a tick of
\* the scheduler, the failure is skipped: the tick still checks every
\* remaining entry, writes its run-summary record and returns its result,
\* and the scheduler stays scheduled, its loop going on to the later ticks.
C31_FailedEntryIsSkipped ==
    (res.op = "run_deduplication" /\ res.via = "tick"
        /\ res.delivered < Len(res.alerts)) =>
        /\ res.out.ok
        /\ res.out.val.checked_data = res.out.val.total_data
        /\ LogFile(res.out.val.timestamp) \in DOMAIN dedup_logs
        /\ loop_pc # "raised"


\* C32: after stop_scheduler has returned no cadence job of the scheduler is
\* registered, no cadence tick starts until start_scheduler is called again,
\* and a run_scheduler loop that is executing eventually exits.
C32_StopEndsTheLoop ==
    /\ [](res.op = "stop_scheduler" => jobs = 0 /\ ~is_running)
    /\ []((res.op = "run_deduplication" /\ res.via = "tick") => res.was_running)
    /\ []((Looping /\ ~is_running) => <>(~Looping \/ is_running))

\* the parts of C32 that the code keeps: the jobs are gone after the stop,
\* and the loop ends unless the scheduler is started again
C32_JobsGoneAndLoopEnds ==
    /\ [](res.op = "stop_scheduler" => jobs = 0 /\ ~is_running)
    /\ []((Looping /\ ~is_running) => <>(~Looping \/ is_running))


(***************************************************************************)
(*                   THE MONITORING LOOP OF THE ORCHESTRATOR               *)
(*                                                                         *)
(* start_monitoring is a coroutine of the event loop; _run_scheduler is a  *)
(* task of the same loop and calls run_scheduler, which has no await: from *)
(* its first step to its last the task keeps the thread of the event loop. *)
(* handle_task is kept as the fact that it was called with the task and    *)
(* how it ended; the coroutines it awaits do not suspend.                  *)
(*                                                                         *)
(* scheduler_task is "None", or the state of the task the attribute holds: *)
(* "created", "running", "done"; after stop_monitoring the attribute is    *)
(* None and the task it held is "cancelled" (it had not started) or        *)
(* "abandoned" (it is inside run_scheduler, which cancel() cannot leave).  *)
(***************************************************************************)
MaxTasks == 2       \* the tasks submitted are 1..MaxTasks

Tasks == 1..MaxTasks

InQueue(task) == \E i \in 1..Len(task_queue) : task_queue[i] = task

\* run_scheduler is executing on the thread of the event loop
EventLoopHeld == Looping /\ scheduler_task \in {"running", "abandoned"}

\* start_monitoring up to its first await; an exception of start_scheduler
\* leaves it before the task is created
StartMonitoring ==
    LET r == start_scheduler(schedule_config, is_running, jobs)
    IN  /\ mon_pc = "idle"
        /\ ~Looping
        /\ r.jobs <= MaxJobs
        /\ monitoring_running' = TRUE
        /\ is_running' = r.is_running
        /\ jobs' = r.jobs
        /\ scheduler_task' = IF r.out.ok THEN "created" ELSE scheduler_task
        /\ mon_pc' = IF r.out.ok THEN "get" ELSE "raised"
        /\ res' = [op |-> "start_monitoring", out |-> r.out]
        /\ UNCHANGED <<loop_pc, pending, task_queue, handled, schedule_config,
                       sched_index, dedup_logs, idxVars, hashVars, storeVars,
                       paperVars, tsdbVars, ingestVars, saverVars>>

\* how handle_task and the except branch end: handle_task returns; it
\* raises and the error is logged and notified; the notification raises too
Outcomes == {"done", "failed", "notifier failed"}

\* task = await self.task_queue.get(); await self.handle_task(task), from
\* the top of the while body: with an empty queue get() suspends
MonGet(outcome) ==
    /\ mon_pc = "get"
    /\ IF task_queue = <<>>
       THEN /\ mon_pc' = "waiting"
            /\ UNCHANGED <<task_queue, handled>>
       ELSE /\ task_queue' = Tail(task_queue)
            /\ handled' = handled \cup {Head(task_queue)}
            /\ mon_pc' = IF outcome = "notifier failed" THEN "raised"
                         ELSE "sleep"
    /\ UNCHANGED <<loop_pc, pending, scheduler_task, monitoring_running, res,
                   idxVars, hashVars, storeVars, paperVars, tsdbVars,
                   ingestVars, saverVars, schedVars>>

\* the event loop resumes the get() that was waiting: a task is there, the
\* thread is free, and the task created before the wait has had its turn
MonWake(outcome) ==
    /\ mon_pc = "waiting"
    /\ task_queue # <<>>
    /\ ~EventLoopHeld
    /\ scheduler_task # "created"
    /\ task_queue' = Tail(task_queue)
    /\ handled' = handled \cup {Head(task_queue)}
    /\ mon_pc' = IF outcome = "notifier failed" THEN "raised" ELSE "sleep"
    /\ UNCHANGED <<loop_pc, pending, scheduler_task, monitoring_running, res,
                   idxVars, hashVars, storeVars, paperVars, tsdbVars,
                   ingestVars, saverVars, schedVars>>

\* await asyncio.sleep(1) is over and the while condition is tested
MonSleepDone ==
    /\ mon_pc = "sleep"
    /\ ~EventLoopHeld
    /\ scheduler_task # "created"
    /\ mon_pc' = IF monitoring_running THEN "get" ELSE "returned"
    /\ UNCHANGED <<loop_pc, pending, scheduler_task, monitoring_running,
                   task_queue, handled, res, idxVars, hashVars, storeVars,
                   paperVars, tsdbVars, ingestVars, saverVars, schedVars>>

\* the event loop gives the created task its first turn, when
\* start_monitoring is suspended or over: _run_scheduler calls run_scheduler
RunSchedulerTask ==
    /\ scheduler_task = "created"
    /\ mon_pc \in {"waiting", "sleep", "raised", "returned"}
    /\ scheduler_task' = "running"
    /\ loop_pc' = "test"
    /\ UNCHANGED <<pending, monitoring_running, task_queue, mon_pc, handled,
                   res, idxVars, hashVars, storeVars, paperVars, tsdbVars,
                   ingestVars, saverVars, schedVars>>

\* stop_monitoring, from a callback of the event loop or from another thread
StopMonitoring ==
    LET held == scheduler_task \in {"created", "running", "done"}
    IN  /\ monitoring_running' = FALSE
        /\ is_running' = IF held THEN FALSE ELSE is_running
        /\ jobs' = IF held THEN 0 ELSE jobs
        /\ scheduler_task' =
               IF scheduler_task = "created" THEN "cancelled"
               ELSE IF scheduler_task = "running" THEN "abandoned"
               ELSE IF scheduler_task = "done" THEN "None"
               ELSE scheduler_task
        /\ res' = [op |-> "stop_monitoring"]
        /\ UNCHANGED <<loop_pc, pending, task_queue, mon_pc, handled,
                       schedule_config, sched_index, dedup_logs, idxVars,
                       hashVars, storeVars, paperVars, tsdbVars, ingestVars,
                       saverVars>>

\* submit_task: put_nowait
SubmitTask(task) ==
    /\ ~InQueue(task)
    /\ task \notin handled
    /\ task_queue' = Append(task_queue, task)
    /\ res' = [op |-> "submit_task", task |-> task]
    /\ UNCHANGED <<loop_pc, pending, scheduler_task, monitoring_running,
                   mon_pc, handled, idxVars, hashVars, storeVars, paperVars,
                   tsdbVars, ingestVars, saverVars, schedVars>>

MonStep ==
    \/ \E outcome \in Outcomes : MonGet(outcome)
    \/ \E outcome \in Outcomes : MonWake(outcome)
    \/ MonSleepDone
    \/ RunSchedulerTask

\* an orchestrator whose config.yaml enables the scheduler or not, on a
\* storage directory with one entry or none
NextMonitor ==
    \/ \E enabled \in BOOLEAN, i \in {"daily", "monthly"} :
          mon_pc = "idle" /\ NewScheduler(ScheduleConfig(enabled, i))
    \/ mon_pc = "idle" /\ AddDataToIndex("h1", "tabular", "P1", "U1")
    \/ StartMonitoring
    \/ StopMonitoring
    \/ \E task \in Tasks : SubmitTask(task)
    \/ MonStep
    \/ LoopStep

\* the event loop gives every ready coroutine its turn, and the code that
\* holds the thread goes on
SpecMonitor ==
    Init /\ [][NextMonitor]_vars /\ WF_vars(MonStep) /\ WF_vars(LoopStep)

\* C35: while the orchestrator is monitoring with the deduplication
\* scheduler enabled, every task submitted with submit_task is eventually
\* passed to handle_task, and the loop of the scheduler never keeps the
\* monitoring loop from taking the next task.
C35_TasksAreHandled ==
    /\ \A task \in Tasks :
          [](InQueue(task) /\ monitoring_running /\ is_running
                /\ mon_pc \notin {"idle", "raised"}
             => <>(task \in handled \/ ~monitoring_running))
    /\ [](~(mon_pc = "waiting" /\ task_queue # <<>> /\ EventLoopHeld
             /\ loop_pc = "sleep"))

\* C40: after stop_monitoring is called the loop of start_monitoring
\* eventually returns (or is left by an exception of the notifier), also
\* when the task queue is empty at that moment and no further task is
\* submitted.
C40_MonitoringLoopReturns ==
    [](~monitoring_running /\ mon_pc \in {"get", "waiting", "sleep"}
       => <>(mon_pc \in {"returned", "raised"}))

=============================================================================
